---- MODULE Spec2Model ----
(***************************************************************************)
(* Model of the Exchange (Microsoft Graph) adapter of src/eaia/exchange.py *)
(*                                                                         *)
(* Spec      one logical call of an enterprise operation (fetch emails,    *)
(*           send reply, mark read, batch mark read, list events): the     *)
(*           credential step, the requests it issues, the cooperative      *)
(*           sleeps and the value returned or the error raised.  The back  *)
(*           end's answers are chosen by the environment.                  *)
(* SpecCred  one call of get_exchange_credentials: parameter check, token  *)
(*           cache load, silent acquisition, device flow, cache save.      *)
(*                                                                         *)
(* Statuses are kept as the decimal strings of the HTTP status codes; a    *)
(* transport exception (requests.exceptions.RequestException raised by    *)
(* the request itself) is the pseudo status "exc".                         *)
(***************************************************************************)
EXTENDS Integers, Sequences, FiniteSets, TLC

VARIABLES
    op,          \* the operation of this logical call
    auth_args,   \* tenant_id, client_id, client_secret: TRUE for a non-empty value
    os_environ,  \* EXCHANGE_TENANT_ID, ..._CLIENT_ID, ..._CLIENT_SECRET: TRUE if set
    pc,          \* position of the call: "start", "orig", "loop", "day", "done"
    message_id,  \* argument of send reply / mark read
    message_ids, \* argument of batch mark read
    date_strs,   \* argument of list events
    credKind,    \* what the credential step gave: "none", "raise", "object", "mapping"
    access_token, \* the access token of the credentials the step returned
    credRequests, \* number of get_exchange_credentials calls of this logical call
    attempt,     \* the retry loop's counter (for attempt in range(max_retries))
    reqLog,      \* every back-end request issued so far, with its answer
    sleeps,      \* every asyncio.sleep duration so far, in order
    next_link,   \* fetch: 0 for the base URL, k for the link to page k+1
    emails,      \* fetch: the records accumulated so far
    skipped,     \* fetch: conversion failures logged so far
    dayIdx,      \* list events: index of the day being processed
    text,        \* list events: the blocks appended to the result so far
    outcome,     \* "none", "return", "raise"
    retval,      \* the Boolean returned by send reply / mark read
    results,     \* the map returned by batch mark read
    err,         \* the error raised
    cpc,         \* credential request: position
    params,      \* credential request: the four parameters (TRUE = non-empty)
    cacheFile,   \* the token cache file: "absent", "valid", "corrupt",
                 \* "unreadable", "truncated", "partial"
    accountCached, \* the cache on disk holds an account for user_email
    has_state_changed, \* msal.SerializableTokenCache.has_state_changed
    clog,        \* credential request: the steps taken, in order
    result,      \* credential request: the MSAL result ("none", "token", "error")
    saveCalls,   \* number of _save_token_cache calls
    fileWrites,  \* number of times the cache file was opened for writing
    coutcome,    \* credential request: "none", "return", "raise"
    cache,       \* the cache _get_token_cache returned: "unloaded", "empty",
                 \* "noaccount", "account"
    warned,      \* _get_token_cache logged its warning
    seen,        \* the file as _get_token_cache found it
    peer,        \* another process in _save_token_cache: "idle", "open", "writing"
    credentials, \* the ExchangeCredentials returned by the credential request
    cfgTask,     \* configuration: "factory", "descriptor", "schema" or "load"
    cfgPc,       \* configuration: "start", "built", "done"
    provider_type, \* the kind given to the factory / the declared provider
    config,      \* the dict given to EmailProviderFactory.create_provider
    adapter,     \* the provider instance built, with its self.config
    valid, verdict,       \* what validate_configuration() returned
    netCalls,    \* network calls made by the adapter so far
    gmail_config,    \* argument of EmailProviderConfig(...)
    exchange_config, \* argument of EmailProviderConfig(...)
    provider_config, \* the EmailProviderConfig built
    configurable, \* get_config: config["configurable"]
    fileData,    \* get_config: the content of config.yaml
    envSet,      \* get_config: the environment variable of a placeholder is set
    config_data, \* get_config: the value returned
    cfgErr,      \* configuration: the error raised
    tpc,         \* event loop: position of each task
    running,     \* event loop: the task holding the loop's thread
    tattempt,    \* event loop: the retry counter of each task
    fn,          \* conversion: the function applied
    input,       \* conversion: its arguments
    output,      \* conversion: what it has produced so far
    stage        \* conversion: "start", ..., "done"

opVars   == <<op, auth_args, os_environ, pc, message_id, message_ids, date_strs, credKind, access_token,
              credRequests, attempt, reqLog, sleeps, next_link, emails, skipped,
              dayIdx, text, outcome, retval, results, err>>
credVars == <<cpc, params, cacheFile, accountCached, has_state_changed, clog, result,
              saveCalls, fileWrites, coutcome, cache, warned, seen, peer,
              credentials>>
cfgVars  == <<cfgTask, cfgPc, provider_type, config, adapter, valid, verdict,
              netCalls,
              gmail_config, exchange_config, provider_config, configurable,
              fileData, envSet, config_data, cfgErr>>
loopVars == <<tpc, running, tattempt>>
convVars == <<fn, input, output, stage>>
vars     == <<opVars, credVars, cfgVars, loopVars, convVars>>

----------------------------------------------------------------------------
(* Program constants *)

max_retries == 3
DefaultRetryAfter == 60

(* Bounds of the model *)

\* fetch_exchange_emails has no cap on its requests; the model stops the back
\* end after this many answers to one fetch.
MaxRequests == 4

----------------------------------------------------------------------------
(* Inputs *)

Ops == {"fetch", "send", "mark", "batch", "events"}

\* The Retry-After header of a 429 answer: absent, or a number of seconds.
RetryAfterHeaders == {{}, {30}}

\* Raw messages of a page.  A message without "id" cannot be converted.
GoodA == [id |-> "a", conversationId |-> "t1"]
GoodB == [id |-> "b"]
BadX  == [subject |-> "no id"]
Pages == {<<>>, <<GoodA>>, <<BadX>>, <<GoodA, BadX, GoodB>>, <<BadX, GoodB>>}

\* Raw events of a day.
EventLists == {<<>>, <<[subject |-> "standup"]>>}

\* A message id that is not a str (an int, say) is written "int:7".
NonStringIds    == {"int:7"}
MessageIdInputs == {"", "m1"} \cup NonStringIds
MessageIdLists  == {<<>>, <<"">>, <<"a">>, <<"a", "b">>, <<"", "a">>, <<"a", "a">>,
                    <<"a", "int:7", "b">>, <<"a", "b", "c", "d">>}
ValidDates      == {"01-07-2024", "02-07-2024"}
DateLists       == {<<>>, <<"01-07-2024">>, <<"2024-07-01">>,
                    <<"01-07-2024", "02-07-2024">>, <<"2024-07-01", "02-07-2024">>}
SubStatuses     == {"200", "404", "403"}

EmptyMap == [x \in {} |-> TRUE]
NoErr    == [type |-> "none", tag |-> "none", status |-> "none", body |-> FALSE]

\* An answer of the back end.
Resp(status, ra, page, next, subs) ==
    [status |-> status, ra |-> ra, page |-> page, next |-> next, subs |-> subs]
Plain(status) == Resp(status, {}, <<>>, FALSE, <<>>)
RateLimited(ra) == Resp("429", ra, <<>>, FALSE, <<>>)

----------------------------------------------------------------------------
(* Helpers shared by the operations *)

\* retry_after = int(response.headers.get('Retry-After', 60))
RetryAfterOf(resp) ==
    IF resp.ra = {} THEN DefaultRetryAfter ELSE CHOOSE r \in resp.ra : TRUE

\* AuthHeader with a token that is not the one of this call's credentials.
AuthHeaderStale(t) == <<"Bearer", "t0">>

\* "Authorization": f"Bearer {credentials['access_token']}"
AuthHeader(t) == <<"Bearer", t>>

Log(call, url, resp) ==
    Append(reqLog, [call |-> call, url |-> url, resp |-> resp,
                    auth |-> AuthHeader(access_token)])

\* raise Exception(f"... Status: {response.status_code}, Response: {response.text}")
StatusError(resp) ==
    [type |-> "Exception", tag |-> "status", status |-> resp.status, body |-> TRUE]
\* raise Exception(f"Failed to ... after {max_retries} attempts: {e}")
TransportError ==
    [type |-> "Exception", tag |-> "transport", status |-> "exc", body |-> FALSE]


\* The error get_exchange_credentials raised, re-raised unchanged by the caller.
AuthError ==
    [type |-> "AuthError", tag |-> "auth", status |-> "none", body |-> FALSE]
\* fetch_exchange_emails: raise ValueError(f"Authentication failed: {e}")
WrappedAuthError ==
    [type |-> "ValueError", tag |-> "auth", status |-> "none", body |-> FALSE]
\* credentials['access_token'] on an ExchangeCredentials object, which defines
\* no __getitem__.
SubscriptError ==
    [type |-> "TypeError", tag |-> "subscript", status |-> "none", body |-> FALSE]

\* tenant_id, client_id and client_secret, as arguments of an operation and
\* as the environment variables EXCHANGE_TENANT_ID, EXCHANGE_CLIENT_ID and
\* EXCHANGE_CLIENT_SECRET: all three there, none, or all but the first.
AuthNames == {"tenant_id", "client_id", "client_secret"}
AuthSettings ==
    {[k \in AuthNames |-> TRUE], [k \in AuthNames |-> FALSE],
     [k \in AuthNames |-> k # "tenant_id"]}

\* all([tenant_id, client_id, client_secret])
AllGiven(a) == \A k \in AuthNames : a[k]

\* get_exchange_auth_from_env(user_email): the three values, or the
\* ValueError naming the variables that are not set.
MissingEnvironment(env) ==
    [type |-> "ValueError", tag |-> "missing-env", status |-> "none",
     body |-> FALSE, missing |-> {k \in AuthNames : ~env[k]}]

\* fetch_exchange_emails calls get_exchange_auth_from_env() without the
\* user_email the function requires: the call raises TypeError before the
\* function body runs.
MissingArgument ==
    [type |-> "TypeError", tag |-> "missing-argument", status |-> "none",
     body |-> FALSE]

\* What "credentials = await get_exchange_credentials(...)" leaves the caller
\* with: the call raised, or it returned the ExchangeCredentials object built at
\* the end of get_exchange_credentials, or (with get_exchange_credentials
\* replaced by a double, as the callers' tests do) a mapping with the key
\* 'access_token'.
CredOutcomes == {"raise", "object", "mapping"}

\* The outcomes with the arguments the operation passes on: with one of them
\* None, get_exchange_credentials raises at its parameter check (line 100).
CredOutcomesWith(a) == IF AllGiven(a) THEN CredOutcomes ELSE {"raise"}

\* The access tokens the Credential Manager may return.
AccessTokens == {"t1", "t2"}

\* credentials = await get_exchange_credentials(...): the one place an
\* operation asks for credentials.
GetCredentials(c, t) ==
    /\ credKind' = c
    /\ access_token' = (IF c = "raise" THEN "none" ELSE t)
    /\ credRequests' = credRequests + 1

\* NextAttempt with the documented reading of "continue" on a 429 answer: the
\* rate-limited request is not counted.
NextAttemptUnlessRateLimited(a, resp) ==
    IF resp.status = "429" THEN a ELSE a + 1

\* for attempt in range(max_retries): every pass of the loop body, whether it
\* ends in "continue", in a sleep or by falling through, takes the next value
\* of the range.
NextAttempt(a, resp) == a + 1

\* LoopStep with the rate-limit wait left out: a 429 answer is retried at once.
LoopStepNoRateWait(a, resp) ==
    IF resp.status = "exc" /\ a < max_retries - 1
    THEN [sleep |-> <<2 ^ a>>, raise |-> FALSE, err |-> NoErr]
    ELSE IF resp.status = "429" \/ a < max_retries - 1
         THEN [sleep |-> <<>>, raise |-> FALSE, err |-> NoErr]
         ELSE [sleep |-> <<>>, raise |-> TRUE,
               err |-> IF resp.status = "exc" THEN TransportError
                       ELSE StatusError(resp)]

\* The body shared by the four "for attempt in range(max_retries)" loops for an
\* answer that is neither the operation's success status nor handled before:
\* the sleep it performs and whether it raises.
LoopStep(a, resp) ==
    CASE resp.status = "429" ->
            [sleep |-> <<RetryAfterOf(resp)>>, raise |-> FALSE, err |-> NoErr]
      [] resp.status = "exc" ->
            IF a = max_retries - 1
            THEN [sleep |-> <<>>, raise |-> TRUE, err |-> TransportError]
            ELSE [sleep |-> <<2 ^ a>>, raise |-> FALSE, err |-> NoErr]
      [] OTHER ->
            IF a = max_retries - 1
            THEN [sleep |-> <<>>, raise |-> TRUE, err |-> StatusError(resp)]
            ELSE [sleep |-> <<>>, raise |-> FALSE, err |-> NoErr]

Raise(e) == pc' = "done" /\ outcome' = "raise" /\ err' = e
Return   == pc' = "done" /\ outcome' = "return" /\ err' = NoErr

----------------------------------------------------------------------------
(* mark_exchange_as_read *)

MarkAnswers == {Plain("200"), Plain("404"), Plain("500"), Plain("exc")}
                   \cup {RateLimited(h) : h \in RetryAfterHeaders}

\* InvalidMessageId without the isinstance test.
InvalidMessageIdEmptyOnly(m) == m = ""

\* if not message_id or not isinstance(message_id, str)
InvalidMessageId(m) == m = "" \/ m \in NonStringIds

MarkStart ==
    /\ op = "mark" /\ pc = "start"
    /\ IF InvalidMessageId(message_id)
       THEN /\ Raise([type |-> "ValueError", tag |-> "invalid-id",
                      status |-> "none", body |-> FALSE])
            /\ UNCHANGED <<credKind, access_token, credRequests>>
       ELSE \E c \in CredOutcomesWith(auth_args), t \in AccessTokens :
              /\ GetCredentials(c, t)
              /\ CASE c = "raise"  -> Raise(AuthError)
                   [] c = "object" -> Raise(SubscriptError)
                   [] OTHER        -> pc' = "loop" /\ UNCHANGED <<outcome, err>>
    /\ UNCHANGED <<op, auth_args, os_environ, message_id, message_ids, date_strs, attempt, reqLog, sleeps,
                   next_link, emails, skipped, dayIdx, text, retval, results>>
    /\ UNCHANGED <<credVars, cfgVars, loopVars, convVars>>

MarkAttempt ==
    /\ op = "mark" /\ pc = "loop"
    /\ \E resp \in MarkAnswers :
         /\ reqLog' = Log("main", 0, resp)
         /\ CASE resp.status = "200" ->
                   Return /\ retval' = TRUE /\ UNCHANGED <<attempt, sleeps>>
              [] resp.status = "404" ->
                   /\ Raise([type |-> "ValueError", tag |-> "not-found",
                             status |-> "404", body |-> FALSE,
                             id |-> message_id])
                   /\ UNCHANGED <<attempt, sleeps, retval>>
              [] OTHER ->
                   LET s == LoopStep(attempt, resp) IN
                   /\ sleeps' = sleeps \o s.sleep
                   /\ IF s.raise
                      THEN Raise(s.err) /\ UNCHANGED <<attempt, retval>>
                      ELSE /\ attempt' = NextAttempt(attempt, resp)
                           /\ IF NextAttempt(attempt, resp) = max_retries
                              THEN Return /\ retval' = FALSE
                              ELSE UNCHANGED <<pc, outcome, err, retval>>
    /\ UNCHANGED <<op, auth_args, os_environ, message_id, message_ids, date_strs, credKind, access_token,
                   credRequests, next_link,
                   emails, skipped, dayIdx, text, results>>
    /\ UNCHANGED <<credVars, cfgVars, loopVars, convVars>>

----------------------------------------------------------------------------
(* send_exchange_email, with _get_original_message *)

OrigAnswers == {Plain("200"), Plain("404"), Plain("429"), Plain("500"), Plain("exc")}
SendAnswers == {Plain("202"), Plain("400"), Plain("500"), Plain("exc")}
                   \cup {RateLimited(h) : h \in RetryAfterHeaders}

\* raise ValueError(f"Could not retrieve original message with ID: {message_id}")
OriginalMissing ==
    [type |-> "ValueError", tag |-> "original-missing", status |-> "none",
     body |-> FALSE]

SendStart ==
    /\ op = "send" /\ pc = "start"
    /\ \E c \in CredOutcomesWith(auth_args), t \in AccessTokens :
         /\ GetCredentials(c, t)
         /\ CASE c = "raise"  -> Raise(AuthError)
              [] c = "object" -> Raise(SubscriptError)
              [] OTHER        -> pc' = "orig" /\ UNCHANGED <<outcome, err>>
    /\ UNCHANGED <<op, auth_args, os_environ, message_id, message_ids, date_strs, attempt, reqLog, sleeps,
                   next_link, emails, skipped, dayIdx, text, retval, results>>
    /\ UNCHANGED <<credVars, cfgVars, loopVars, convVars>>

\* OriginalFound taking every answer for the original message.
OriginalFoundAlways(resp) == TRUE

\* if response.status_code == 200: return response.json(); anything else,
\* a transport exception included, gives None.
OriginalFound(resp) == resp.status = "200"

\* _get_original_message: one GET; anything but a 200 answer gives None.
SendGetOriginal ==
    /\ op = "send" /\ pc = "orig"
    /\ \E resp \in OrigAnswers :
         /\ reqLog' = Log("orig", 0, resp)
         /\ IF OriginalFound(resp)
            THEN pc' = "loop" /\ UNCHANGED <<outcome, err>>
            ELSE Raise(OriginalMissing)
    /\ UNCHANGED <<op, auth_args, os_environ, message_id, message_ids, date_strs, credKind, access_token,
                   credRequests, attempt, sleeps,
                   next_link, emails, skipped, dayIdx, text, retval, results>>
    /\ UNCHANGED <<credVars, cfgVars, loopVars, convVars>>

SendAttempt ==
    /\ op = "send" /\ pc = "loop"
    /\ \E resp \in SendAnswers :
         /\ reqLog' = Log("main", 0, resp)
         /\ IF resp.status = "202"
            THEN Return /\ retval' = TRUE /\ UNCHANGED <<attempt, sleeps>>
            ELSE LET s == LoopStep(attempt, resp) IN
                 /\ sleeps' = sleeps \o s.sleep
                 /\ IF s.raise
                    THEN Raise(s.err) /\ UNCHANGED <<attempt, retval>>
                    ELSE /\ attempt' = NextAttempt(attempt, resp)
                         /\ IF NextAttempt(attempt, resp) = max_retries
                            THEN Return /\ retval' = FALSE
                            ELSE UNCHANGED <<pc, outcome, err, retval>>
    /\ UNCHANGED <<op, auth_args, os_environ, message_id, message_ids, date_strs, credKind, access_token,
                   credRequests, next_link,
                   emails, skipped, dayIdx, text, results>>
    /\ UNCHANGED <<credVars, cfgVars, loopVars, convVars>>

----------------------------------------------------------------------------
(* mark_exchange_messages_as_read_batch *)

MapSet(f, k, v) == [x \in DOMAIN f \cup {k} |-> IF x = k THEN v ELSE f[x]]

\* BatchRequestIds numbering the sub-requests by their position in
\* batch_requests, the list without the skipped ids.
BatchRequestIdsRenumbered(ids) ==
    LET pos == [i \in 1..Len(ids) |-> i - 1]
        kept == SelectSeq(pos, LAMBDA i : ~(ids[i + 1] = "" \/ ids[i + 1] = "int:7"))
    IN  [j \in 1..Len(kept) |-> j - 1]

\* The ids str(i) of the sub-requests: for i, message_id in
\* enumerate(message_ids), the 0-based positions of the ids that are not
\* skipped as empty or non-string.
BatchRequestIds(ids) ==
    LET pos == [i \in 1..Len(ids) |-> i - 1]
    IN  SelectSeq(pos, LAMBDA i : ~InvalidMessageId(ids[i + 1]))

Reverse(s) == [i \in 1..Len(s) |-> s[Len(s) + 1 - i]]

\* The sub-requests of rq that are answered when those of the set S are not.
Answered(rq, S) == SelectSeq(rq, LAMBDA n : n \notin S)

\* The "responses" of a 200 batch answer: at most one per sub-request, each
\* with its sub-request's id and its own status, in request order or in
\* reverse order.
SubResponses(ids) ==
    LET rq == BatchRequestIds(ids)
    IN  UNION { { [j \in 1..Len(order) |-> [id |-> order[j], status |-> st[j]]] :
                    st \in [1..Len(order) -> SubStatuses] } :
                order \in UNION {{Answered(rq, S), Reverse(Answered(rq, S))} :
                                    S \in SUBSET {rq[j] : j \in 1..Len(rq)}} }

\* ProcessBatch taking the position of a sub-response in the answer for the
\* position of its message id in the input.
ProcessBatchByPosition(ids, subs, acc) ==
    [x \in {ids[j] : j \in 1..Len(subs)} |->
        LET j == CHOOSE j \in 1..Len(subs) :
                    ids[j] = x /\ \A k \in (j + 1)..Len(subs) : ids[k] # x
        IN  subs[j].status = "200"]

\* for i, batch_result in enumerate(batch_response.get("responses", [])): ...
RECURSIVE ProcessBatch(_, _, _)
ProcessBatch(ids, subs, acc) ==
    IF subs = <<>> THEN acc
    ELSE LET r == Head(subs)
         IN  ProcessBatch(ids, Tail(subs),
                 IF r.id < Len(ids)
                 THEN MapSet(acc, ids[r.id + 1], r.status = "200")
                 ELSE acc)

\* return {msg_id: False for msg_id in message_ids}
AllFalse(ids) == [x \in {ids[i] : i \in 1..Len(ids)} |-> FALSE]

BatchAnswers(ids) ==
    {Resp("200", {}, <<>>, FALSE, subs) : subs \in SubResponses(ids)}
        \cup {Plain("500"), Plain("exc")}
        \cup {RateLimited(h) : h \in RetryAfterHeaders}

BatchStart ==
    /\ op = "batch" /\ pc = "start"
    /\ IF message_ids = <<>>
       THEN /\ Return /\ results' = EmptyMap
            /\ UNCHANGED <<credKind, access_token, credRequests>>
       ELSE \E c \in CredOutcomesWith(auth_args), t \in AccessTokens :
              /\ GetCredentials(c, t)
              /\ UNCHANGED results
              /\ CASE c = "raise"  -> Raise(AuthError)
                   [] c = "object" -> Raise(SubscriptError)
                   [] OTHER        ->
                        IF BatchRequestIds(message_ids) = <<>>
                        THEN Return
                        ELSE pc' = "loop" /\ UNCHANGED <<outcome, err>>
    /\ UNCHANGED <<op, auth_args, os_environ, message_id, message_ids, date_strs, attempt, reqLog, sleeps,
                   next_link, emails, skipped, dayIdx, text, retval>>
    /\ UNCHANGED <<credVars, cfgVars, loopVars, convVars>>

BatchAttempt ==
    /\ op = "batch" /\ pc = "loop"
    /\ \E resp \in BatchAnswers(message_ids) :
         /\ reqLog' = Log("main", 0, resp)
         /\ IF resp.status = "200"
            THEN /\ Return
                 /\ results' = ProcessBatch(message_ids, resp.subs, EmptyMap)
                 /\ UNCHANGED <<attempt, sleeps>>
            ELSE LET s == LoopStep(attempt, resp) IN
                 /\ sleeps' = sleeps \o s.sleep
                 /\ IF s.raise
                    THEN Raise(s.err) /\ UNCHANGED <<attempt, results>>
                    ELSE /\ attempt' = NextAttempt(attempt, resp)
                         /\ IF NextAttempt(attempt, resp) = max_retries
                            THEN Return /\ results' = AllFalse(message_ids)
                            ELSE UNCHANGED <<pc, outcome, err, results>>
    /\ UNCHANGED <<op, auth_args, os_environ, message_id, message_ids, date_strs, credKind, access_token,
                   credRequests, next_link,
                   emails, skipped, dayIdx, text, retval>>
    /\ UNCHANGED <<credVars, cfgVars, loopVars, convVars>>

----------------------------------------------------------------------------
(* _fetch_exchange_calendar_events *)

EventsAnswers ==
    {Resp("200", {}, evs, FALSE, <<>>) : evs \in EventLists}
        \cup {Plain("500"), Plain("exc")}
        \cup {RateLimited(h) : h \in RetryAfterHeaders}

\* datetime.strptime(date_str, "%d-%m-%Y") succeeds
ValidDate(d) == d \in ValidDates

\* _format_exchange_events
FormatEvents(events) ==
    IF events = <<>>
    THEN <<"No events found for this day.">>
    ELSE [i \in 1..Len(events) |-> events[i].subject]

\* results += f"***FOR DAY {date_str}***\n\n" + ...
DayBlock(d, events) == [day |-> d, body |-> FormatEvents(events)]

\* InvalidBlock without the day header.
InvalidBlockNoHeader(d) ==
    [day |-> "", body |-> <<"Error: Invalid date format. Expected dd-mm-yyyy.">>]

\* results += f"***FOR DAY {date_str}***\n\nError: Invalid date format. ..."
InvalidBlock(d) ==
    [day |-> d, body |-> <<"Error: Invalid date format. Expected dd-mm-yyyy.">>]

\* The end of one iteration of "for date_str in date_strs": the block is
\* appended; after the last day the text is returned.
AfterDay(block) ==
    /\ text' = Append(text, block)
    /\ dayIdx' = dayIdx + 1
    /\ attempt' = 0
    /\ IF dayIdx = Len(date_strs)
       THEN Return
       ELSE pc' = "day" /\ UNCHANGED <<outcome, err>>

EventsStart ==
    /\ op = "events" /\ pc = "start"
    /\ \E c \in CredOutcomesWith(auth_args), t \in AccessTokens :
         /\ GetCredentials(c, t)
         /\ CASE c = "raise"  -> Raise(AuthError)
              [] c = "object" -> Raise(SubscriptError)
              [] OTHER        ->
                   IF date_strs = <<>>
                   THEN Return
                   ELSE pc' = "day" /\ UNCHANGED <<outcome, err>>
    /\ UNCHANGED <<op, auth_args, os_environ, message_id, message_ids, date_strs, attempt, reqLog, sleeps,
                   next_link, emails, skipped, dayIdx, text, retval, results>>
    /\ UNCHANGED <<credVars, cfgVars, loopVars, convVars>>

\* The head of an iteration: the date is parsed before any request.
EventsDay ==
    /\ op = "events" /\ pc = "day"
    /\ IF ValidDate(date_strs[dayIdx])
       THEN /\ pc' = "loop" /\ attempt' = 0
            /\ UNCHANGED <<text, dayIdx, outcome, err>>
       ELSE AfterDay(InvalidBlock(date_strs[dayIdx]))
    /\ UNCHANGED <<op, auth_args, os_environ, message_id, message_ids, date_strs, credKind, access_token,
                   credRequests, reqLog, sleeps,
                   next_link, emails, skipped, retval, results>>
    /\ UNCHANGED <<credVars, cfgVars, loopVars, convVars>>

EventsAttempt ==
    /\ op = "events" /\ pc = "loop"
    /\ \E resp \in EventsAnswers :
         /\ reqLog' = Log("main", dayIdx, resp)
         /\ IF resp.status = "200"
            THEN /\ AfterDay(DayBlock(date_strs[dayIdx], resp.page))
                 /\ UNCHANGED sleeps
            ELSE LET s == LoopStep(attempt, resp) IN
                 /\ sleeps' = sleeps \o s.sleep
                 /\ IF s.raise
                    THEN Raise(s.err) /\ UNCHANGED <<attempt, text, dayIdx>>
                    ELSE IF NextAttempt(attempt, resp) = max_retries
                         THEN \* the loop ends with events = []
                              AfterDay(DayBlock(date_strs[dayIdx], <<>>))
                         ELSE /\ attempt' = NextAttempt(attempt, resp)
                              /\ UNCHANGED <<pc, outcome, err, text, dayIdx>>
    /\ UNCHANGED <<op, auth_args, os_environ, message_id, message_ids, date_strs, credKind, access_token,
                   credRequests, next_link,
                   emails, skipped, retval, results>>
    /\ UNCHANGED <<credVars, cfgVars, loopVars, convVars>>

----------------------------------------------------------------------------
(* fetch_exchange_emails *)

FetchAnswers ==
    {Resp("200", {}, p, n, <<>>) : p \in Pages, n \in BOOLEAN}
        \cup {Plain("404"), Plain("500"), Plain("exc")}
        \cup {RateLimited(h) : h \in RetryAfterHeaders}

\* convert_exchange_message_to_email_data raises KeyError without "id"
Convertible(msg) == "id" \in DOMAIN msg

\* convert_exchange_message_to_email_data
Convert(msg) ==
    [id |-> msg.id,
     thread_id |-> IF "conversationId" \in DOMAIN msg THEN msg.conversationId
                   ELSE msg.id]

\* ConvertPage with the try/except around the loop instead of inside it: the
\* first failing record ends the page.
RECURSIVE ConvertPageAbortOnFailure(_)
ConvertPageAbortOnFailure(page) ==
    IF page = <<>> \/ ~("id" \in DOMAIN Head(page)) THEN <<>>
    ELSE <<[id |-> Head(page).id, thread_id |-> Head(page).id]>>
            \o ConvertPageAbortOnFailure(Tail(page))

\* for message in messages: try: emails.append(convert(message)) except: continue
RECURSIVE ConvertPage(_)
ConvertPage(page) ==
    IF page = <<>> THEN <<>>
    ELSE IF Convertible(Head(page))
         THEN <<Convert(Head(page))>> \o ConvertPage(Tail(page))
         ELSE ConvertPage(Tail(page))

\* except requests.exceptions.RequestException as e:
\*     raise Exception(f"Failed to fetch emails from Exchange: {e}")
\* (raise_for_status() puts the status code, not the body, in its message)
FetchError(resp) ==
    [type |-> "Exception", tag |-> "fetch-failed", status |-> resp.status,
     body |-> FALSE]

\* LinkAfterRateLimit starting over at the base URL.
LinkAfterRateLimitReset(link) == 0

\* The 429 branch ends in "continue" with next_link as it was: the next
\* iteration requests the same URL.
LinkAfterRateLimit(link) == link

\* NextLink never finding a link in the answer.
NextLinkDropped(resp, link) == 0

\* next_link = data.get('@odata.nextLink'): the link to the page after the
\* one requested through link, 0 (None) when the answer carries none.
NextLink(resp, link) == IF resp.next THEN link + 1 ELSE 0

\* Lines 300-314: with an argument missing the call of
\* get_exchange_auth_from_env() raises; otherwise the credential request.
FetchStart ==
    /\ op = "fetch" /\ pc = "start"
    /\ IF ~AllGiven(auth_args)
       THEN /\ Raise(MissingArgument)
            /\ UNCHANGED <<credKind, access_token, credRequests>>
       ELSE \E c \in CredOutcomes, t \in AccessTokens :
              /\ GetCredentials(c, t)
              /\ CASE c = "raise"  -> Raise(WrappedAuthError)
                   [] c = "object" -> Raise(SubscriptError)
                   [] OTHER        -> pc' = "loop" /\ UNCHANGED <<outcome, err>>
    /\ UNCHANGED <<op, auth_args, os_environ, message_id, message_ids, date_strs, attempt, reqLog, sleeps,
                   next_link, emails, skipped, dayIdx, text, retval, results>>
    /\ UNCHANGED <<credVars, cfgVars, loopVars, convVars>>

\* One iteration of "while True": the request of the page next_link names.
FetchPage ==
    /\ op = "fetch" /\ pc = "loop"
    /\ Len(reqLog) < MaxRequests
    /\ \E resp \in FetchAnswers :
         /\ reqLog' = Log("main", next_link, resp)
         /\ CASE resp.status = "429" ->
                   /\ sleeps' = Append(sleeps, RetryAfterOf(resp))
                   /\ next_link' = LinkAfterRateLimit(next_link)
                   /\ UNCHANGED <<pc, outcome, err, emails, skipped>>
              [] resp.status = "200" ->
                   /\ emails' = emails \o ConvertPage(resp.page)
                   /\ skipped' = skipped
                                   + Len(resp.page) - Len(ConvertPage(resp.page))
                   /\ UNCHANGED sleeps
                   /\ next_link' = NextLink(resp, next_link)
                   /\ IF NextLink(resp, next_link) # 0
                      THEN UNCHANGED <<pc, outcome, err>>
                      ELSE Return
              [] OTHER ->
                   /\ Raise(FetchError(resp))
                   /\ UNCHANGED <<sleeps, emails, skipped, next_link>>
    /\ UNCHANGED <<op, auth_args, os_environ, message_id, message_ids, date_strs, credKind, access_token,
                   credRequests, attempt,
                   dayIdx, text, retval, results>>
    /\ UNCHANGED <<credVars, cfgVars, loopVars, convVars>>

----------------------------------------------------------------------------
(* One logical call of one operation *)

\* Values of the configuration and event-loop variables while none of their
\* operations is running.
NoAdapter == [cls |-> "none", config |-> EmptyMap]
NotInspected == [kind |-> "unset", ok |-> FALSE]
NotValidated == [called |-> FALSE, ok |-> FALSE]
Omitted == [given |-> "omitted", fields |-> EmptyMap]
NoProviderConfig ==
    [built |-> FALSE, provider |-> "none", gmail_config |-> Omitted,
     exchange_config |-> Omitted]

CfgIdle ==
    /\ cfgTask = "none" /\ cfgPc = "done" /\ provider_type = "gmail"
    /\ config = EmptyMap /\ adapter = NoAdapter /\ valid = NotInspected /\ verdict = NotValidated
    /\ netCalls = 0 /\ gmail_config = Omitted /\ exchange_config = Omitted
    /\ provider_config = NoProviderConfig /\ configurable = EmptyMap
    /\ fileData = EmptyMap /\ envSet = FALSE /\ config_data = EmptyMap
    /\ cfgErr = "none"

Tasks == {"A", "B"}

LoopIdle ==
    /\ tpc = [t \in Tasks |-> "done"]
    /\ running = "none"
    /\ tattempt = [t \in Tasks |-> 0]

\* The file before any _get_token_cache has read it.
Unread == [file |-> "unread", account |-> FALSE]

\* No ExchangeCredentials: nothing returned yet, or None returned.
NoCredentials ==
    [access_token |-> "none", expires_in |-> "none", refresh_token |-> "none"]

\* ExchangeCredentials(access_token=result["access_token"],
\*                     expires_in=result.get("expires_in", 3600),
\*                     refresh_token=result.get("refresh_token"))
Credentials(res) ==
    [access_token |-> res.access_token,
     expires_in |-> IF "expires_in" \in DOMAIN res THEN res.expires_in
                    ELSE "3600",
     refresh_token |-> IF "refresh_token" \in DOMAIN res THEN res.refresh_token
                       ELSE "None"]

CredIdle ==
    /\ cpc = "idle" /\ params = <<TRUE, TRUE, TRUE, TRUE>>
    /\ cacheFile = "absent" /\ accountCached = FALSE
    /\ has_state_changed = FALSE /\ clog = <<>> /\ result = "none"
    /\ saveCalls = 0 /\ fileWrites = 0 /\ coutcome = "none"
    /\ cache = "unloaded" /\ warned = FALSE /\ seen = Unread /\ peer = "idle"
    /\ credentials = NoCredentials

ConvIdle ==
    /\ fn = "none" /\ input = EmptyMap /\ output = EmptyMap /\ stage = "done"

Init ==
    /\ op \in Ops
    /\ auth_args \in AuthSettings
    /\ os_environ \in AuthSettings
    /\ pc = "start"
    /\ message_id \in (IF op \in {"send", "mark"} THEN MessageIdInputs ELSE {""})
    /\ message_ids \in (IF op = "batch" THEN MessageIdLists ELSE {<<>>})
    /\ date_strs \in (IF op = "events" THEN DateLists ELSE {<<>>})
    /\ credKind = "none" /\ access_token = "none" /\ credRequests = 0
    /\ attempt = 0 /\ reqLog = <<>> /\ sleeps = <<>>
    /\ next_link = 0 /\ emails = <<>> /\ skipped = 0
    /\ dayIdx = 1 /\ text = <<>>
    /\ outcome = "none" /\ retval = FALSE /\ results = EmptyMap /\ err = NoErr
    /\ CredIdle /\ CfgIdle /\ LoopIdle /\ ConvIdle

Next ==
    \/ FetchStart \/ FetchPage
    \/ SendStart \/ SendGetOriginal \/ SendAttempt
    \/ MarkStart \/ MarkAttempt
    \/ BatchStart \/ BatchAttempt
    \/ EventsStart \/ EventsDay \/ EventsAttempt

Spec == Init /\ [][Next]_vars

\* One call of fetch_exchange_emails that keeps running: every request is
\* answered or times out (timeout=30), every asyncio.sleep returns, and the
\* loop then takes its next step.
InitFetch == Init /\ op = "fetch"
NextFetch == FetchStart \/ FetchPage
SpecFetch == InitFetch /\ [][NextFetch]_vars /\ WF_vars(NextFetch)

\* The four operations built on "for attempt in range(max_retries)", each run
\* to its end: an awaited call is resumed by the event loop until it returns or
\* raises.
\* The longest input list of the batch adds nothing to its loop but answers.
InitRetry ==
    /\ Init
    /\ op \in {"send", "mark", "batch", "events"}
    /\ message_ids # <<"a", "b", "c", "d">>

NextRetry ==
    \/ SendStart \/ SendGetOriginal \/ SendAttempt
    \/ MarkStart \/ MarkAttempt
    \/ BatchStart \/ BatchAttempt
    \/ EventsStart \/ EventsDay \/ EventsAttempt

SpecRetry == InitRetry /\ [][NextRetry]_vars /\ WF_vars(NextRetry)

----------------------------------------------------------------------------
(* Vocabulary of the properties *)

\* The requests of the operation's retried call: the page requests of fetch,
\* the sendMail POSTs of send reply (not the GET of the original message), the
\* PATCH of mark read, the $batch POST, the event queries of list events.
MainLog == SelectSeq(reqLog, LAMBDA e : e.call = "main")

\* The status the operation takes for success.
SuccessStatus == IF op = "send" THEN "202" ELSE "200"

\* The message ids of a sequence of raw or converted records that have one.
IdsOf(recs) == [i \in 1..Len(recs) |-> recs[i].id]

\* The ids of the records of a page that have an id, in page order.
GoodIds(page) == IdsOf(SelectSeq(page, LAMBDA m : "id" \in DOMAIN m))

\* The operation returned what the successful answer resp stands for.
ReturnedResultOf(resp) ==
    /\ outcome = "return"
    /\ CASE op = "fetch"  -> /\ IdsOf(emails) = GoodIds(resp.page)
                             /\ skipped = Len(resp.page) - Len(emails)
         [] op = "batch"  -> /\ DOMAIN results =
                                  {message_ids[resp.subs[j].id + 1] :
                                       j \in 1..Len(resp.subs)}
                             /\ \A j \in 1..Len(resp.subs) :
                                  \/ \E k \in (j + 1)..Len(resp.subs) :
                                        message_ids[resp.subs[k].id + 1]
                                          = message_ids[resp.subs[j].id + 1]
                                  \/ results[message_ids[resp.subs[j].id + 1]]
                                        = (resp.subs[j].status = "200")
         [] op = "events" -> text = <<[day |-> date_strs[1],
                                       body |-> FormatEvents(resp.page)]>>
         [] OTHER         -> retval = TRUE

\* [429 with Retry-After, success] are the first two answers in log.
RateLimitedThenSuccess(log) ==
    /\ Len(log) >= 2
    /\ log[1].resp.status = "429"
    /\ log[2].resp.status = SuccessStatus

----------------------------------------------------------------------------
(* C1 *)

\* C1 as stated: for each operation, when the first request is answered 429
\* with Retry-After r and the next request with a success status, the finished
\* operation has waited exactly once, for r, has issued exactly 2 requests in
\* total and has returned the result of the successful answer.
C1_AsStated ==
    (pc = "done" /\ RateLimitedThenSuccess(reqLog))
        => /\ sleeps = <<RetryAfterOf(reqLog[1].resp)>>
           /\ Len(reqLog) = 2
           /\ ReturnedResultOf(reqLog[2].resp)

\* C1 amended: the same, counted over the requests of the operation's retried
\* call (for send reply the sendMail requests, which follow the one GET of the
\* original message), when the successful answer ends the call: for fetch it
\* carries no next-page link, for list events the date list has one day.
C1_RateLimitOnce ==
    (/\ pc = "done"
     /\ RateLimitedThenSuccess(MainLog)
     /\ (op = "fetch" => ~MainLog[2].resp.next)
     /\ (op = "events" => Len(date_strs) = 1))
        => /\ sleeps = <<RetryAfterOf(MainLog[1].resp)>>
           /\ Len(MainLog) = 2
           /\ Len(reqLog) = (IF op = "send" THEN 3 ELSE 2)
           /\ ReturnedResultOf(MainLog[2].resp)

C1_Witness ==
    /\ pc = "done" /\ op = "send"
    /\ RateLimitedThenSuccess(MainLog)
    /\ sleeps = <<30>> /\ retval = TRUE /\ outcome = "return"

----------------------------------------------------------------------------
(* C2 *)

AllRateLimited(log) == \A i \in 1..Len(log) : log[i].resp.status = "429"

\* C2 as stated: a 429 answer never counts against the retry budget and never
\* surfaces: an operation whose retried call has so far been answered by 429
\* alone has neither returned nor raised (it retries the same call), and when n
\* answers 429 have just been followed by a success answer the operation has
\* waited n times and has not failed.
C2_AsStated ==
    /\ (MainLog # <<>> /\ AllRateLimited(MainLog)) => pc # "done"
    /\ (/\ Len(MainLog) >= 2
        /\ AllRateLimited(SubSeq(MainLog, 1, Len(MainLog) - 1))
        /\ MainLog[Len(MainLog)].resp.status = SuccessStatus)
         => /\ outcome # "raise"
            /\ Len(sleeps) = Len(MainLog) - 1
            /\ op \in {"send", "mark"} => (outcome = "return" /\ retval = TRUE)

----------------------------------------------------------------------------
(* C3 *)

AllTransport(log) == \A i \in 1..Len(log) : log[i].resp.status = "exc"

\* C3 as stated: for send reply, mark read and batch mark read, when every
\* request attempt fails with a transport exception the finished operation has
\* raised after exactly 3 attempts, having waited 1 and then 2 units; an
\* attempt before the third that succeeds makes the operation return the
\* success.
C3_AsStated ==
    (op \in {"send", "mark", "batch"} /\ pc = "done" /\ reqLog # <<>>)
        => /\ AllTransport(reqLog)
               => /\ outcome = "raise"
                  /\ Len(reqLog) = max_retries
                  /\ sleeps = <<1, 2>>
           /\ (/\ Len(MainLog) < max_retries
               /\ AllTransport(SubSeq(MainLog, 1, Len(MainLog) - 1))
               /\ MainLog # <<>>
               /\ MainLog[Len(MainLog)].resp.status = SuccessStatus)
               => /\ outcome = "return"
                  /\ (op # "batch" => retval = TRUE)

\* The part of C3 the retry loops do keep: the same, over the attempts of the
\* retried call alone (for send reply, once the original message is there).
C3_RetryLoop ==
    (op \in {"send", "mark", "batch"} /\ pc = "done" /\ MainLog # <<>>)
        => /\ AllTransport(MainLog)
               => /\ outcome = "raise" /\ err = TransportError
                  /\ Len(MainLog) = max_retries
                  /\ sleeps = <<1, 2>>
           /\ (/\ AllTransport(SubSeq(MainLog, 1, Len(MainLog) - 1))
               /\ MainLog[Len(MainLog)].resp.status = SuccessStatus)
               => /\ outcome = "return"
                  /\ (op # "batch" => retval = TRUE)
                  /\ Len(MainLog) <= max_retries

----------------------------------------------------------------------------
(* C4 *)

\* C4 as stated: fetch retries a transport failure of a page request with
\* exponential backoff, up to 3 attempts, and fails with a transport error
\* only after the retries are exhausted.
C4_AsStated ==
    (op = "fetch" /\ pc = "done" /\ outcome = "raise" /\ err.status = "exc")
        => /\ Len(reqLog) >= max_retries
           /\ AllTransport(SubSeq(reqLog, Len(reqLog) - max_retries + 1,
                                  Len(reqLog)))
           /\ Len(sleeps) >= max_retries - 1

----------------------------------------------------------------------------
(* C5 *)

\* The non-2xx statuses other than 429 and 404 the back end answers with.
ErrorStatuses == {"400", "403", "500"}

\* C5 as stated: an answer with a non-2xx status other than 429 and 404 is
\* never followed by another request, and the operation raises an error that
\* carries that status code and the response body.
C5_AsStated ==
    \A i \in 1..Len(reqLog) :
        reqLog[i].resp.status \in ErrorStatuses
            => /\ i = Len(reqLog)
               /\ pc = "done" /\ outcome = "raise"
               /\ err.status = reqLog[i].resp.status
               /\ err.body

----------------------------------------------------------------------------
(* C6 *)

RECURSIVE ConcatGoodIds(_)
ConcatGoodIds(log) ==
    IF log = <<>> THEN <<>>
    ELSE GoodIds(Head(log).resp.page) \o ConcatGoodIds(Tail(log))

RECURSIVE CountRecords(_)
CountRecords(log) ==
    IF log = <<>> THEN 0 ELSE Len(Head(log).resp.page) + CountRecords(Tail(log))

OkPages == SelectSeq(reqLog, LAMBDA e : e.resp.status = "200")

\* C6: fetch accumulates, in page order, exactly the convertible records of
\* the pages received, each failing record being skipped and logged without
\* touching any other record; each page but the first is requested through the
\* link of the page before it; and when fetch returns, the last page carried no
\* next-page link, every earlier one carried one, and the value returned is
\* that accumulation.
C6_Pagination ==
    op = "fetch"
        => /\ IdsOf(emails) = ConcatGoodIds(OkPages)
           /\ skipped = CountRecords(OkPages) - Len(emails)
           /\ \A i \in 1..Len(OkPages) : OkPages[i].url = i - 1
           /\ outcome = "return"
                => /\ OkPages # <<>>
                   /\ reqLog[Len(reqLog)] = OkPages[Len(OkPages)]
                   /\ \A i \in 1..Len(OkPages) :
                        OkPages[i].resp.next <=> i < Len(OkPages)

C6_Witness ==
    /\ op = "fetch" /\ outcome = "return"
    /\ Len(OkPages) = 2 /\ Len(reqLog) = 3
    /\ IdsOf(emails) = <<"a", "b", "b">>
    /\ skipped = 2

----------------------------------------------------------------------------
(* C7 *)

\* C7: when the batch endpoint answers 200 the batch returns a map (it never
\* fails as a whole) in which every sub-response with index i and status s has
\* set result[message_ids[i]] to (s = 200), a later sub-response for the same
\* message id setting it again; the keys are the ids of the sub-responses.
C7_BatchPerItem ==
    (op = "batch" /\ pc = "done" /\ MainLog # <<>>
        /\ MainLog[Len(MainLog)].resp.status = "200")
        => ReturnedResultOf(MainLog[Len(MainLog)].resp)

C7_Witness ==
    /\ op = "batch" /\ pc = "done" /\ outcome = "return"
    /\ message_ids = <<"a", "b", "c", "d">>
    /\ MainLog # <<>>
    /\ MainLog[Len(MainLog)].resp.subs =
          <<[id |-> 0, status |-> "200"], [id |-> 1, status |-> "404"],
            [id |-> 2, status |-> "403"], [id |-> 3, status |-> "200"]>>
    /\ results = [x \in {"a", "b", "c", "d"} |-> x \in {"a", "d"}]

----------------------------------------------------------------------------
(* get_exchange_credentials, with _get_token_cache and _save_token_cache *)
(*                                                                         *)
(* params = <<user_email, tenant_id, client_id, client_secret>>, TRUE for  *)
(* a non-empty value.  clog lists the steps in the order the code takes    *)
(* them.  MSAL is the library's contract: acquire_token_silent gives a     *)
(* token or None, initiate_device_flow a flow with or without "user_code", *)
(* acquire_token_by_device_flow a token or an error description; a cache   *)
(* that MSAL modifies has its has_state_changed flag set, deserialize      *)
(* leaves it clear and serialize clears it.                                *)

\* ParamsOk without the check of client_secret.
ParamsOkNoSecret(p) == p[1] /\ p[2] /\ p[3]

\* if not all([user_email, tenant_id, client_id, client_secret])
ParamsOk(p) == p[1] /\ p[2] /\ p[3] /\ p[4]

\* What open(), read() and cache.deserialize() raise on the file: a file
\* that cannot be opened gives IOError, content that is not a JSON document
\* json.JSONDecodeError; a file of zero bytes deserializes to the empty cache.
LoadError(file) ==
    CASE file = "unreadable" -> "IOError"
      [] file \in {"corrupt", "partial"} -> "JSONDecodeError"
      [] OTHER -> "none"

\* CaughtOnLoad without json.JSONDecodeError in the except clause.
CaughtOnLoadIOErrorOnly(e) == e = "IOError"

\* except (json.JSONDecodeError, IOError) as e:
CaughtOnLoad(e) == e \in {"JSONDecodeError", "IOError"}

\* _get_token_cache(): a new SerializableTokenCache, filled from the file when
\* _TOKEN_CACHE_FILE.exists(); a caught error is logged as a warning and the
\* cache stays empty.  account: the document on disk holds an account for
\* user_email.
GetTokenCache(file, account) ==
    IF file = "absent"
    THEN [cache |-> "empty", warned |-> FALSE, raised |-> "none"]
    ELSE IF LoadError(file) # "none"
    THEN IF CaughtOnLoad(LoadError(file))
         THEN [cache |-> "empty", warned |-> TRUE, raised |-> "none"]
         ELSE [cache |-> "empty", warned |-> FALSE, raised |-> LoadError(file)]
    ELSE IF file = "truncated"
    THEN [cache |-> "empty", warned |-> FALSE, raised |-> "none"]
    ELSE [cache |-> IF account THEN "account" ELSE "noaccount",
          warned |-> FALSE, raised |-> "none"]

\* AccountsFound taking every cache for one with an account.
AccountsFoundAlways(c) == TRUE

\* accounts = app.get_accounts(username=user_email), on the cache
\* _get_token_cache built.
AccountsFound(c) == c = "account"

\* NeedsDeviceFlow without the test: the device flow whatever the result.
NeedsDeviceFlowAlways(res) == TRUE

\* if not result:
NeedsDeviceFlow(res) == res = "none"

\* _save_token_cache: the file is opened for writing only under the flag.
WritesFile(changed) == changed

\* _save_token_cache(cache) followed by the check of the result: the state
\* after lines 146-161 when the MSAL result is res and the flag is changed.
SaveAndFinish(res, changed, steps) ==
    /\ saveCalls' = saveCalls + 1
    /\ fileWrites' = fileWrites + (IF WritesFile(changed) THEN 1 ELSE 0)
    /\ cacheFile' = IF WritesFile(changed) THEN "valid" ELSE cacheFile
    /\ accountCached' = IF WritesFile(changed)
                        THEN res = "token" \/ AccountsFound(cache)
                        ELSE accountCached
    /\ has_state_changed' = (changed /\ ~WritesFile(changed))
    /\ clog' = clog \o steps
                 \o <<IF WritesFile(changed) THEN "save:write" ELSE "save:skip">>
    /\ result' = res
    /\ cpc' = "done"
    /\ coutcome' = IF res = "token" THEN "return" ELSE "raise:auth"
    /\ credentials' = IF res = "token"
                      THEN Credentials([access_token |-> "t1"])
                      ELSE NoCredentials
    /\ UNCHANGED <<cache, warned, seen, peer>>

\* Lines 100-126 up to the account lookup: the parameter check, the cache
\* load and get_accounts.
CredEnter ==
    /\ cpc = "start"
    /\ IF ~ParamsOk(params)
       THEN /\ cpc' = "done" /\ coutcome' = "raise:params"
            /\ UNCHANGED <<clog, cache, warned, seen>>
       ELSE LET loaded == GetTokenCache(cacheFile, accountCached) IN
            /\ seen' = [file |-> cacheFile, account |-> accountCached]
            /\ cache' = loaded.cache
            /\ warned' = loaded.warned
            /\ IF loaded.raised # "none"
               THEN /\ clog' = <<"load">>
                    /\ cpc' = "done" /\ coutcome' = "raise:load"
               ELSE /\ clog' = <<"load", IF AccountsFound(loaded.cache)
                                         THEN "accounts:found"
                                         ELSE "accounts:none">>
                    /\ cpc' = IF AccountsFound(loaded.cache) THEN "silent"
                              ELSE "device"
                    /\ UNCHANGED coutcome
    /\ UNCHANGED <<params, cacheFile, accountCached, has_state_changed, result,
                   saveCalls, fileWrites, peer, credentials>>
    /\ UNCHANGED <<opVars, cfgVars, loopVars, convVars>>

\* result = app.acquire_token_silent(...): a token ends the request after the
\* save; None leads to the device flow.
CredSilent ==
    /\ cpc = "silent"
    /\ \E res \in {"token", "none"}, changed \in BOOLEAN :
         IF NeedsDeviceFlow(res)
         THEN /\ cpc' = "device"
              /\ result' = res
              /\ has_state_changed' = changed
              /\ clog' = Append(clog, IF res = "token" THEN "silent:token"
                                        ELSE "silent:none")
              /\ UNCHANGED <<cacheFile, accountCached, saveCalls, fileWrites,
                             coutcome, cache, warned, seen, peer, credentials>>
         ELSE SaveAndFinish(res, changed, <<"silent:token">>)
    /\ UNCHANGED params
    /\ UNCHANGED <<opVars, cfgVars, loopVars, convVars>>

\* device_flow = app.initiate_device_flow(...); without "user_code" the
\* request raises at once.
CredInitiateDeviceFlow ==
    /\ cpc = "device"
    /\ \E created \in BOOLEAN :
         IF created
         THEN /\ cpc' = "waiting"
              /\ clog' = Append(clog, "initiate:ok")
              /\ UNCHANGED coutcome
         ELSE /\ cpc' = "done"
              /\ clog' = Append(clog, "initiate:failed")
              /\ coutcome' = "raise:device-flow"
    /\ UNCHANGED <<params, cacheFile, accountCached, has_state_changed, result,
                   saveCalls, fileWrites, cache, warned, seen, peer, credentials>>
    /\ UNCHANGED <<opVars, cfgVars, loopVars, convVars>>

\* result = app.acquire_token_by_device_flow(device_flow): blocks until the
\* user has authorized or the flow has expired; then the save and the check.
CredAcquireByDeviceFlow ==
    /\ cpc = "waiting"
    /\ \E res \in {"token", "error"} :
         SaveAndFinish(res, has_state_changed \/ res = "token",
                       <<IF res = "token" THEN "acquire:token" ELSE "acquire:error">>)
    /\ UNCHANGED params
    /\ UNCHANGED <<opVars, cfgVars, loopVars, convVars>>

OpIdle ==
    /\ op = "none" /\ pc = "done" /\ message_id = "" /\ message_ids = <<>>
    /\ auth_args = [k \in AuthNames |-> TRUE]
    /\ os_environ = [k \in AuthNames |-> TRUE]
    /\ date_strs = <<>> /\ credKind = "none" /\ access_token = "none"
    /\ credRequests = 0 /\ attempt = 0 /\ reqLog = <<>>
    /\ sleeps = <<>> /\ next_link = 0 /\ emails = <<>> /\ skipped = 0
    /\ dayIdx = 1 /\ text = <<>> /\ outcome = "none" /\ retval = FALSE
    /\ results = EmptyMap /\ err = NoErr

\* Another process running the same code against the same file, seen through
\* what its _save_token_cache does to the file: open(_TOKEN_CACHE_FILE, 'w')
\* truncates it, f.write(cache.serialize()) fills it, leaving the with block
\* completes the document.  It never removes the file.
PeerOpen ==
    /\ peer = "idle"
    /\ peer' = "open"
    /\ cacheFile' = "truncated" /\ accountCached' = FALSE
    /\ UNCHANGED <<cpc, params, has_state_changed, clog, result, saveCalls,
                   fileWrites, coutcome, cache, warned, seen, credentials>>
    /\ UNCHANGED <<opVars, cfgVars, loopVars, convVars>>

PeerWrite ==
    /\ peer = "open"
    /\ peer' = "writing"
    /\ cacheFile' = "partial"
    /\ UNCHANGED <<cpc, params, accountCached, has_state_changed, clog, result,
                   saveCalls, fileWrites, coutcome, cache, warned, seen,
                   credentials>>
    /\ UNCHANGED <<opVars, cfgVars, loopVars, convVars>>

PeerClose ==
    /\ peer = "writing"
    /\ peer' = "idle"
    /\ cacheFile' = "valid"
    /\ \E account \in BOOLEAN : accountCached' = account
    /\ UNCHANGED <<cpc, params, has_state_changed, clog, result, saveCalls,
                   fileWrites, coutcome, cache, warned, seen, credentials>>
    /\ UNCHANGED <<opVars, cfgVars, loopVars, convVars>>

CacheFiles == {"absent", "valid", "corrupt", "unreadable"}

InitCred ==
    /\ OpIdle /\ CfgIdle /\ LoopIdle /\ ConvIdle
    /\ cpc = "start"
    /\ params \in [1..4 -> BOOLEAN]
    /\ cacheFile \in CacheFiles
    /\ accountCached \in (IF cacheFile = "valid" THEN BOOLEAN ELSE {FALSE})
    /\ has_state_changed = FALSE
    /\ clog = <<>> /\ result = "none"
    /\ saveCalls = 0 /\ fileWrites = 0 /\ coutcome = "none"
    /\ cache = "unloaded" /\ warned = FALSE /\ seen = Unread /\ peer = "idle"
    /\ credentials = NoCredentials

NextCred ==
    \/ CredEnter
    \/ CredSilent
    \/ CredInitiateDeviceFlow
    \/ CredAcquireByDeviceFlow
    \/ PeerOpen
    \/ PeerWrite
    \/ PeerClose

SpecCred == InitCred /\ [][NextCred]_vars

----------------------------------------------------------------------------------------------------------------------------------------
(* refresh_exchange_token *)
(*                                                                         *)
(* The same variables as a credential request, with cpc going from         *)
(* "refresh" over "refresh:silent" to "done".  result is the value of      *)
(* acquire_token_silent: None, a dict with "access_token" and possibly     *)
(* "expires_in" and "refresh_token", or, as the code provides for, a dict  *)
(* without "access_token".                                                 *)

NoneResult == [type |-> "None"]
ErrorResult == [type |-> "dict", error_description |-> "invalid_grant"]
TokenResults ==
    {[k \in {"type", "access_token"} \cup S |->
         CASE k = "type" -> "dict"
           [] k = "access_token" -> t
           [] k = "expires_in" -> "7200"
           [] OTHER -> "r1"] :
       t \in AccessTokens, S \in SUBSET {"expires_in", "refresh_token"}}
SilentResults == {NoneResult, ErrorResult} \cup TokenResults

\* if result and "access_token" in result:
HasAccessToken(res) == res.type = "dict" /\ "access_token" \in DOMAIN res

\* Lines 187-205: the cache load and get_accounts; without a cached account
\* None is returned at once.
RefreshEnter ==
    /\ cpc = "refresh"
    /\ LET loaded == GetTokenCache(cacheFile, accountCached) IN
       /\ seen' = [file |-> cacheFile, account |-> accountCached]
       /\ cache' = loaded.cache
       /\ warned' = loaded.warned
       /\ IF loaded.raised # "none"
          THEN /\ clog' = <<"load">>
               /\ cpc' = "done" /\ coutcome' = "raise:load"
          ELSE IF AccountsFound(loaded.cache)
               THEN /\ clog' = <<"load", "accounts:found">>
                    /\ cpc' = "refresh:silent"
                    /\ UNCHANGED coutcome
               ELSE /\ clog' = <<"load", "accounts:none">>
                    /\ cpc' = "done" /\ coutcome' = "return:none"
    /\ UNCHANGED <<params, cacheFile, accountCached, has_state_changed, result,
                   saveCalls, fileWrites, peer, credentials>>
    /\ UNCHANGED <<opVars, cfgVars, loopVars, convVars>>

\* Lines 207-227: acquire_token_silent, _save_token_cache(cache) and the
\* value returned.
RefreshSilent ==
    /\ cpc = "refresh:silent"
    /\ \E res \in SilentResults, changed \in BOOLEAN :
         /\ result' = res
         /\ saveCalls' = saveCalls + 1
         /\ fileWrites' = fileWrites + (IF WritesFile(changed) THEN 1 ELSE 0)
         /\ cacheFile' = IF WritesFile(changed) THEN "valid" ELSE cacheFile
         /\ accountCached' = IF WritesFile(changed) THEN TRUE ELSE accountCached
         /\ has_state_changed' = (changed /\ ~WritesFile(changed))
         /\ clog' = clog \o <<IF res = NoneResult THEN "silent:none"
                               ELSE IF "access_token" \in DOMAIN res
                               THEN "silent:token" ELSE "silent:error",
                               IF WritesFile(changed) THEN "save:write"
                               ELSE "save:skip">>
         /\ IF HasAccessToken(res)
            THEN coutcome' = "return" /\ credentials' = Credentials(res)
            ELSE coutcome' = "return:none" /\ credentials' = NoCredentials
    /\ cpc' = "done"
    /\ UNCHANGED <<params, cache, warned, seen, peer>>
    /\ UNCHANGED <<opVars, cfgVars, loopVars, convVars>>

InitRefresh ==
    /\ OpIdle /\ CfgIdle /\ LoopIdle /\ ConvIdle
    /\ cpc = "refresh"
    /\ params = <<TRUE, TRUE, TRUE, TRUE>>
    /\ peer \in {"idle", "open", "writing"}
    /\ cacheFile \in (CASE peer = "open" -> {"truncated"}
                         [] peer = "writing" -> {"partial"}
                         [] OTHER -> CacheFiles)
    /\ accountCached \in (IF cacheFile = "valid" THEN BOOLEAN ELSE {FALSE})
    /\ has_state_changed = FALSE
    /\ clog = <<>> /\ result = NoneResult
    /\ saveCalls = 0 /\ fileWrites = 0 /\ coutcome = "none"
    /\ cache = "unloaded" /\ warned = FALSE /\ seen = Unread
    /\ credentials = NoCredentials

NextRefresh ==
    \/ RefreshEnter
    \/ RefreshSilent
    \/ PeerOpen
    \/ PeerWrite
    \/ PeerClose

SpecRefresh == InitRefresh /\ [][NextRefresh]_vars

----------------
(* C8 *)

Has(step) == \E i \in 1..Len(clog) : clog[i] = step
Initiated == Has("initiate:ok") \/ Has("initiate:failed")
SilentTried == Has("silent:token") \/ Has("silent:none")
StepIndex(S) == CHOOSE i \in 1..Len(clog) : clog[i] \in S

\* C8: a credential request that does anything loads the token cache first;
\* with a cached account for the address the silent acquisition is the next
\* thing after the lookup; the device flow is initiated if and only if no
\* cached account exists or the silent acquisition gave no access token, and
\* never before the silent attempt.
C8_SilentBeforeDevice ==
    /\ clog # <<>> => clog[1] = "load"
    /\ (Has("accounts:found") /\ Len(clog) >= 3)
         => clog[3] \in {"silent:token", "silent:none"}
    /\ SilentTried <=> (Has("accounts:found") /\ cpc # "silent")
    /\ Initiated => (Has("accounts:none") \/ Has("silent:none"))
    /\ (cpc \in {"waiting", "done"}
          /\ (Has("accounts:none") \/ Has("silent:none"))) => Initiated
    /\ (Initiated /\ Has("accounts:found"))
         => StepIndex({"silent:token", "silent:none"})
               < StepIndex({"initiate:ok", "initiate:failed"})

C8_Witness ==
    /\ cpc = "done" /\ coutcome = "return"
    /\ clog = <<"load", "accounts:found", "silent:none", "initiate:ok",
                "acquire:token", "save:write">>

----------------------------------------------------------------------------
(* C9 *)

\* C9 as stated: after any credential acquisition attempt, whatever its
\* outcome, the cache has been persisted exactly once, and the cache file has
\* been written if and only if the change flag was set: no change of the cache
\* is left unwritten.
C9_AsStated ==
    (cpc = "done" /\ clog # <<>>)
        => /\ saveCalls = 1
           /\ fileWrites = (IF Has("save:write") \/ has_state_changed THEN 1 ELSE 0)

----------------------------------------------------------------------------
(* C10 *)

\* C10: a credential request with any of the four parameters missing or empty
\* fails with the precondition error, and the token cache is never loaded, the
\* authorization server never contacted and the cache file never written.
C10_MissingParams ==
    (\E i \in 1..4 : ~params[i])
        => /\ clog = <<>>
           /\ saveCalls = 0 /\ fileWrites = 0
           /\ cpc \in {"start", "done"}
           /\ cpc = "done" => coutcome = "raise:params"

C10_Witness ==
    /\ cpc = "done" /\ coutcome = "raise:params"
    /\ params = <<TRUE, TRUE, TRUE, FALSE>>
    /\ cacheFile = "valid" /\ accountCached

----------------------------------------------------------------------------
(* C11 *)

\* C11 as stated: for every operation, when the credentials cannot be
\* obtained the operation has failed with the authentication error itself,
\* not wrapped in another error, and has issued no back-end request.
C11_AsStated ==
    credKind = "raise"
        => /\ pc = "done" /\ outcome = "raise"
           /\ err = AuthError
           /\ reqLog = <<>>

\* The part of C11 every operation keeps: the operation fails and issues no
\* request; send reply, mark read, batch mark read and list events re-raise
\* the authentication error as it is.
C11_NoRequestWithoutCredentials ==
    credKind = "raise"
        => /\ pc = "done" /\ outcome = "raise"
           /\ err.tag = "auth"
           /\ (op # "fetch" => err = AuthError)
           /\ reqLog = <<>>

----------------------------------------------------------------------------
(* C12 *)

\* The calls that are turned down on their arguments before the credential
\* step: mark read with an empty or non-string id, batch mark read of nothing,
\* fetch without one of tenant_id, client_id and client_secret.
RejectedOnArguments ==
    \/ op = "mark" /\ message_id \in {"", "int:7"}
    \/ op = "batch" /\ message_ids = <<>>
    \/ op = "fetch" /\ \E k \in AuthNames : ~auth_args[k]

CarriesToken(t) == \A i \in 1..Len(reqLog) : reqLog[i].auth = <<"Bearer", t>>

----------------------------------------------------------------------------
(* C13 *)

\* C13: send reply issues a send request only after the request for the
\* original message has been answered with the message, that request being the
\* first of the call and the only one of its kind; when it is answered 404 the
\* call fails with the error naming the missing original and no send request
\* is ever issued.
C13_OriginalFirst ==
    op = "send"
        => /\ \A i \in 1..Len(reqLog) : (reqLog[i].call = "orig") <=> (i = 1)
           /\ MainLog # <<>> => reqLog[1].resp.status = "200"
           /\ (reqLog # <<>> /\ reqLog[1].resp.status = "404")
                => /\ pc = "done" /\ outcome = "raise"
                   /\ err = OriginalMissing
                   /\ Len(reqLog) = 1

C13_Witness ==
    /\ op = "send" /\ pc = "done" /\ outcome = "raise"
    /\ err = OriginalMissing
    /\ Len(reqLog) = 1 /\ reqLog[1].call = "orig" /\ reqLog[1].resp.status = "404"

----------------------------------------------------------------------------
(* C14 *)

\* C14: mark read answered 404 fails at once with the not-found error naming
\* the message id: no request follows a 404 answer, and when the first answer
\* is 404 the call has issued exactly one request and has not waited; an
\* empty or non-string message id is rejected before credentials are
\* requested.
C14_MarkNotFound ==
    op = "mark"
        => /\ \A i \in 1..Len(reqLog) :
                reqLog[i].resp.status = "404"
                    => /\ i = Len(reqLog)
                       /\ pc = "done" /\ outcome = "raise"
                       /\ err.type = "ValueError" /\ err.tag = "not-found"
                       /\ err.id = message_id
           /\ (reqLog # <<>> /\ reqLog[1].resp.status = "404")
                => (Len(reqLog) = 1 /\ sleeps = <<>>)
           /\ message_id \in {"", "int:7"}
                => /\ credRequests = 0 /\ credKind = "none" /\ reqLog = <<>>
                   /\ pc = "done"
                        => (outcome = "raise" /\ err.type = "ValueError"
                              /\ err.tag = "invalid-id")

C14_Witness ==
    /\ op = "mark" /\ message_id = "m1" /\ pc = "done" /\ outcome = "raise"
    /\ Len(reqLog) = 1 /\ reqLog[1].resp.status = "404"
    /\ err.tag = "not-found" /\ sleeps = <<>>

----------------------------------------------------------------------------
(* C15 *)

RequestsOfDay(i) == SelectSeq(reqLog, LAMBDA e : e.url = i)

\* C15: when list events returns, its text has exactly one block per entry of
\* the date list, in input order, each beginning with the header of its entry;
\* an entry that is not a valid day-month-year date has the error block and no
\* request was issued for it; a valid day without events has the block that
\* says so.
C15_BlockPerDay ==
    (op = "events" /\ outcome = "return")
        => /\ Len(text) = Len(date_strs)
           /\ \A i \in 1..Len(date_strs) :
                /\ text[i].day = date_strs[i]
                /\ text[i].body # <<>>
                /\ date_strs[i] \notin ValidDates
                     => /\ text[i].body =
                             <<"Error: Invalid date format. Expected dd-mm-yyyy.">>
                        /\ RequestsOfDay(i) = <<>>
                /\ (/\ date_strs[i] \in ValidDates
                    /\ \A j \in 1..Len(RequestsOfDay(i)) :
                          RequestsOfDay(i)[j].resp.page = <<>>)
                     => text[i].body = <<"No events found for this day.">>

C15_Witness ==
    /\ op = "events" /\ outcome = "return"
    /\ date_strs = <<"2024-07-01", "02-07-2024">>
    /\ Len(reqLog) = 1 /\ reqLog[1].resp.status = "200"
    /\ text = <<[day |-> "2024-07-01",
                 body |-> <<"Error: Invalid date format. Expected dd-mm-yyyy.">>],
                [day |-> "02-07-2024",
                 body |-> <<"No events found for this day.">>]>>

----------------------------------------------------------------------------
(* EmailProviderFactory.create_provider with the providers it builds        *)
(* (email_provider.py), EmailProviderConfig with GmailConfig and            *)
(* ExchangeConfig (schemas.py), and get_config (main/config.py)             *)
(*                                                                         *)
(* A dict is a function from the keys it has to their values; a value is    *)
(* the empty string, a blank string or a non-empty one.  An optional        *)
(* argument is left out ("omitted"), passed as None, or passed with fields. *)
(* The values of the two configuration sources carry the name of the        *)
(* source they come from.                                                   *)

ExchangeKeys  == {"tenant_id", "client_id", "client_secret"}
GmailKeys     == {"gmail_secret", "gmail_token"}
ProviderKinds == {"gmail", "exchange"}
FieldValues   == {"", " ", "v"}

DictsOver(K) == UNION {[S -> FieldValues] : S \in SUBSET K}
ConfigDicts  == DictsOver(ExchangeKeys) \cup DictsOver(GmailKeys)

\* not v or not v.strip()
Blank(v) == v \in {"", " "}

\* required_keys of validate_configuration
RequiredKeys(cls) == IF cls = "GmailProvider" THEN GmailKeys ELSE ExchangeKeys

\* ProviderTypeOf answering GMAIL for every provider.
ProviderTypeOfAlwaysGmail(a) == "gmail"

\* get_provider_type
ProviderTypeOf(a) == IF a.cls = "GmailProvider" THEN "gmail" ELSE "exchange"

\* validate_configuration: all(key in self.config for key in required_keys)
ValidateConfiguration(a) == \A k \in RequiredKeys(a.cls) : k \in DOMAIN a.config

\* create_provider, with GmailProvider.__init__ / ExchangeProvider.__init__
\* (self.config = config; None and {} both give {}).
CreateProvider ==
    /\ cfgTask = "factory" /\ cfgPc = "start"
    /\ CASE provider_type = "gmail" ->
              /\ adapter' = [cls |-> "GmailProvider", config |-> config]
              /\ cfgPc' = "built" /\ UNCHANGED cfgErr
         [] provider_type = "exchange" ->
              /\ adapter' = [cls |-> "ExchangeProvider", config |-> config]
              /\ cfgPc' = "built" /\ UNCHANGED cfgErr
         [] OTHER ->
              /\ cfgErr' = "ValueError: Unsupported provider type"
              /\ cfgPc' = "done" /\ UNCHANGED adapter
    /\ UNCHANGED <<cfgTask, provider_type, config, valid, verdict, netCalls, gmail_config,
                   exchange_config, provider_config, configurable, fileData,
                   envSet, config_data>>
    /\ UNCHANGED <<opVars, credVars, loopVars, convVars>>

\* The descriptors: a configuration dict with or without "provider_type".
Descriptors ==
    {[provider_type |-> k, tenant_id |-> "v"] :
        k \in {"", " ", "gmail", "exchange", "EXCHANGE", " Gmail ", "imap"}}
    \cup {[tenant_id |-> "v"], EmptyMap}

\* DescriptorKind taking a descriptor without "provider_type" for Gmail's.
DescriptorKindDefaultGmail(c) ==
    IF "provider_type" \in DOMAIN c THEN c["provider_type"] ELSE "gmail"

\* provider_type = config.get("provider_type"); None reads as "".
DescriptorKind(c) ==
    IF "provider_type" \in DOMAIN c THEN c["provider_type"] ELSE ""

\* EmailProvider.from_string: the member whose value is
\* provider_str.lower().strip(), "none" for the ValueError.
FromString(provider_str) ==
    LET normalized == CASE provider_str = "EXCHANGE" -> "exchange"
                        [] provider_str = " Gmail " -> "gmail"
                        [] provider_str = " " -> ""
                        [] OTHER -> provider_str
    IN  IF normalized \in ProviderKinds THEN normalized ELSE "none"

\* get_provider_from_config(config)
GetProviderFromConfig ==
    /\ cfgTask = "descriptor" /\ cfgPc = "start"
    /\ IF DescriptorKind(config) = ""
       THEN /\ cfgErr' = "ValueError: Missing 'provider_type' in configuration"
            /\ UNCHANGED adapter
       ELSE IF FromString(DescriptorKind(config)) = "none"
       THEN /\ cfgErr' = "ValueError: Invalid provider type in configuration"
            /\ UNCHANGED adapter
       ELSE /\ adapter' = [cls |-> IF FromString(DescriptorKind(config)) = "gmail"
                                   THEN "GmailProvider" ELSE "ExchangeProvider",
                           config |-> config]
            /\ UNCHANGED cfgErr
    /\ cfgPc' = "done"
    /\ UNCHANGED <<cfgTask, provider_type, config, valid, verdict, netCalls, gmail_config,
                   exchange_config, provider_config, configurable, fileData,
                   envSet, config_data>>
    /\ UNCHANGED <<opVars, credVars, loopVars, convVars>>

\* ValidateConfig testing only that the required keys are there.
ValidateConfigKeysOnly(kind, c) ==
    /\ kind \in ProviderKinds
    /\ \A k \in (IF kind = "gmail" THEN GmailKeys ELSE ExchangeKeys) :
          k \in DOMAIN c

\* EmailProviderFactory.validate_config:
\* all(key in config and config[key] for key in required_keys), False for a
\* provider type that is neither GMAIL nor EXCHANGE.
ValidateConfig(kind, c) ==
    /\ kind \in ProviderKinds
    /\ \A k \in (IF kind = "gmail" THEN GmailKeys ELSE ExchangeKeys) :
          k \in DOMAIN c /\ c[k] # ""

\* EmailProviderFactory.validate_config(provider_type, config): a static
\* method, called at any time on the configuration the provider is created
\* from.
ValidateConfigCall ==
    /\ cfgTask = "factory" /\ ~verdict.called
    /\ verdict' = [called |-> TRUE, ok |-> ValidateConfig(provider_type, config)]
    /\ UNCHANGED <<cfgTask, cfgPc, provider_type, config, adapter, valid, netCalls,
                   gmail_config, exchange_config, provider_config, configurable,
                   fileData, envSet, config_data, cfgErr>>
    /\ UNCHANGED <<opVars, credVars, loopVars, convVars>>

\* get_provider_type() and validate_configuration() on the provider built.
InspectProvider ==
    /\ cfgTask = "factory" /\ cfgPc = "built"
    /\ valid' = [kind |-> ProviderTypeOf(adapter),
                 ok |-> ValidateConfiguration(adapter)]
    /\ cfgPc' = "inspected"
    /\ UNCHANGED <<cfgTask, provider_type, config, adapter, verdict, netCalls, gmail_config,
                   exchange_config, provider_config, configurable, fileData,
                   envSet, config_data, cfgErr>>
    /\ UNCHANGED <<opVars, credVars, loopVars, convVars>>

\* ExchangeProvider.mark_as_read: the three parameters are read from
\* self.config (None when the key is not there) and handed on; the first thing
\* done with them is the check of get_exchange_credentials, and only with all
\* of them given does the call reach the network.
AdapterCall ==
    /\ cfgTask = "factory" /\ cfgPc = "inspected"
    /\ adapter.cls = "ExchangeProvider"
    /\ IF \A k \in ExchangeKeys :
              k \in DOMAIN adapter.config /\ adapter.config[k] # ""
       THEN netCalls' = netCalls + 1 /\ UNCHANGED cfgErr
       ELSE /\ cfgErr' = "ValueError: All authentication parameters are required"
            /\ UNCHANGED netCalls
    /\ cfgPc' = "done"
    /\ UNCHANGED <<cfgTask, provider_type, config, adapter, valid, verdict, gmail_config,
                   exchange_config, provider_config, configurable, fileData,
                   envSet, config_data>>
    /\ UNCHANGED <<opVars, credVars, loopVars, convVars>>

Arg(given, fields) == [given |-> given, fields |-> fields]
NoneArg      == Arg("None", EmptyMap)
GmailArgs    == {Omitted, NoneArg} \cup {Arg("set", f) : f \in DictsOver(GmailKeys)}
ExchangeArgs == {Omitted, NoneArg} \cup {Arg("set", f) : f \in DictsOver(ExchangeKeys)}

\* GmailConfig(**f): both fields default to None; a field that is given must
\* not be blank.
GmailConfigOk(f) == \A k \in DOMAIN f : ~Blank(f[k])

\* ExchangeConfig(**f): the three fields are required and must not be blank.
ExchangeConfigOk(f) == DOMAIN f = ExchangeKeys /\ \A k \in DOMAIN f : ~Blank(f[k])

\* validate_exchange_config_when_provider_exchange: a field validator, run on
\* the value passed for exchange_config and not on the default of a field
\* that is left out.
ExchangeMissing(provider, e) == provider = "exchange" /\ e.given = "None"

\* EmailProviderConfig(provider=..., gmail_config=..., exchange_config=...)
\* validates.
ProviderConfigOk(provider, g, e) ==
    /\ provider \in ProviderKinds
    /\ g.given = "set" => GmailConfigOk(g.fields)
    /\ e.given = "set" => ExchangeConfigOk(e.fields)
    /\ ~ExchangeMissing(provider, e)

\* The EmailProviderConfig instance.
BuiltProviderConfig(provider, g, e) ==
    [built |-> TRUE, provider |-> provider, gmail_config |-> g,
     exchange_config |-> e]

ConstructProviderConfig ==
    /\ cfgTask = "schema" /\ cfgPc = "start"
    /\ IF ProviderConfigOk(provider_type, gmail_config, exchange_config)
       THEN /\ provider_config' =
                  BuiltProviderConfig(provider_type, gmail_config, exchange_config)
            /\ UNCHANGED cfgErr
       ELSE /\ cfgErr' = "ValidationError"
            /\ UNCHANGED provider_config
    /\ cfgPc' = "done"
    /\ UNCHANGED <<cfgTask, provider_type, config, adapter, valid, verdict, netCalls,
                   gmail_config, exchange_config, configurable, fileData, envSet,
                   config_data>>
    /\ UNCHANGED <<opVars, credVars, loopVars, convVars>>

LoadKeys == {"email", "email_provider", "gmail_config", "exchange_config"}
Tagged(src, v) == [from |-> src, val |-> v]

\* The values a key may have in a source.  An exchange_config block is
\* "complete" (the three fields), "partial" (tenant_id alone), "empty" (the
\* three fields, all empty), "null" (client_secret is null) or "blank"
\* (client_secret is a blank string); a gmail_config block is "token" (a
\* token, the secret null), "no entries" (both fields empty or null) or
\* "blank token".
ValuesOf(k) ==
    CASE k = "email"          -> {"me@example.com"}
      [] k = "email_provider" -> {"gmail", "exchange", "${EMAIL_PROVIDER}"}
      [] k = "gmail_config"   -> {"token", "no entries", "blank token"}
      [] OTHER                -> {"complete", "partial", "empty", "null", "blank"}
AllValues == UNION {ValuesOf(k) : k \in LoadKeys}

\* The fields of an exchange_config block; "None" is YAML's null.
ExchangeFieldsOf(v) ==
    CASE v = "complete" -> [k \in ExchangeKeys |-> "v"]
      [] v = "partial"  -> [k \in {"tenant_id"} |-> "v"]
      [] v = "empty"    -> [k \in ExchangeKeys |-> ""]
      [] v = "null"     -> [k \in ExchangeKeys |->
                               IF k = "client_secret" THEN "None" ELSE "v"]
      [] OTHER          -> [k \in ExchangeKeys |->
                               IF k = "client_secret" THEN " " ELSE "v"]

\* The fields of a gmail_config block.
GmailFieldsOf(v) ==
    CASE v = "token" -> [gmail_secret |-> "None", gmail_token |-> "v"]
      [] v = "no entries" -> [gmail_secret |-> "", gmail_token |-> "None"]
      [] OTHER -> [gmail_token |-> " "]

\* DropEmpty that keeps every entry.
DropEmptyKeepAll(data) == data

\* {k: v for k, v in data.items() if v and v != ""}
DropEmpty(data) ==
    [k \in {x \in DOMAIN data : data[x] \notin {"", "None"}} |-> data[k]]

\* gmail_config / exchange_config of _load_provider_config: the block with
\* its empty entries dropped, None when the key is not there or nothing is
\* left.
BlockArg(present, data) ==
    IF present /\ DropEmpty(data) # EmptyMap
    THEN Arg("set", DropEmpty(data)) ELSE NoneArg

SourceDicts(src) ==
    {f \in UNION {[S -> {Tagged(src, v) : v \in AllValues}] : S \in SUBSET LoadKeys} :
        \A k \in DOMAIN f : f[k].val \in ValuesOf(k)}

\* ChooseSource filling the keys the override lacks from the file.
MergeSources(override, file) ==
    [k \in DOMAIN override \cup DOMAIN file |->
        IF k \in DOMAIN override THEN override[k] ELSE file[k]]

\* if "email" in config["configurable"]: ... else: yaml.safe_load(...)
ChooseSource(override, file) ==
    IF "email" \in DOMAIN override THEN override ELSE file

\* _substitute_env_vars: a "${VAR}" string becomes the value of VAR when the
\* environment has it (here "exchange") and stays as it is otherwise.
SubstituteEnvVars(d, env) ==
    [k \in DOMAIN d |->
        IF d[k].val = "${EMAIL_PROVIDER}" /\ env
        THEN [d[k] EXCEPT !.val = "exchange"] ELSE d[k]]

\* _load_provider_config: the provider defaults to gmail; gmail_config and
\* exchange_config are passed explicitly, None when the block is not there
\* or has no entry left; any exception gives None.
LoadProviderConfig(d) ==
    LET provider == IF "email_provider" \in DOMAIN d
                    THEN d["email_provider"].val ELSE "gmail"
        g == IF "gmail_config" \in DOMAIN d
             THEN BlockArg(TRUE, GmailFieldsOf(d["gmail_config"].val))
             ELSE NoneArg
        e == IF "exchange_config" \in DOMAIN d
             THEN BlockArg(TRUE, ExchangeFieldsOf(d["exchange_config"].val))
             ELSE NoneArg
    IN  IF ProviderConfigOk(provider, g, e)
        THEN BuiltProviderConfig(provider, g, e)
        ELSE NoProviderConfig

\* get_config
GetConfig ==
    /\ cfgTask = "load" /\ cfgPc = "start"
    /\ LET d  == SubstituteEnvVars(ChooseSource(configurable, fileData), envSet)
           pc_ == LoadProviderConfig(d)
       IN  /\ provider_config' = pc_
           /\ config_data' =
                 IF pc_.built
                 THEN MapSet(d, "email_provider_config",
                             Tagged(IF "email_provider" \in DOMAIN d
                                    THEN d["email_provider"].from ELSE "default",
                                    "EmailProviderConfig"))
                 ELSE d
    /\ cfgPc' = "done"
    /\ UNCHANGED <<cfgTask, provider_type, config, adapter, valid, verdict, netCalls,
                   gmail_config, exchange_config, configurable, fileData, envSet,
                   cfgErr>>
    /\ UNCHANGED <<opVars, credVars, loopVars, convVars>>

InitConfig ==
    /\ OpIdle /\ CredIdle /\ LoopIdle /\ ConvIdle
    /\ cfgTask \in {"factory", "descriptor", "schema", "load"}
    /\ cfgPc = "start"
    /\ provider_type \in (IF cfgTask \in {"load", "descriptor"} THEN {"gmail"}
                          ELSE ProviderKinds \cup {"unsupported"})
    /\ config \in (CASE cfgTask = "factory" -> ConfigDicts
                      [] cfgTask = "descriptor" -> Descriptors
                      [] OTHER -> {EmptyMap})
    /\ gmail_config \in (IF cfgTask = "schema" THEN GmailArgs ELSE {Omitted})
    /\ exchange_config \in (IF cfgTask = "schema" THEN ExchangeArgs ELSE {Omitted})
    /\ configurable \in (IF cfgTask = "load" THEN SourceDicts("override")
                         ELSE {EmptyMap})
    /\ fileData \in (IF cfgTask = "load" THEN SourceDicts("file") ELSE {EmptyMap})
    /\ envSet \in (IF cfgTask = "load" THEN BOOLEAN ELSE {FALSE})
    /\ adapter = NoAdapter /\ valid = NotInspected /\ verdict = NotValidated /\ netCalls = 0
    /\ provider_config = NoProviderConfig /\ config_data = EmptyMap
    /\ cfgErr = "none"

NextConfig ==
    \/ CreateProvider
    \/ GetProviderFromConfig
    \/ InspectProvider
    \/ ValidateConfigCall
    \/ AdapterCall
    \/ ConstructProviderConfig
    \/ GetConfig

SpecConfig == InitConfig /\ [][NextConfig]_vars

----------------------------------------------------------------------------
(* C16 *)

KeysOfKind(kind) == IF kind = "gmail" THEN GmailKeys ELSE ExchangeKeys

\* The dict c has every field the kind requires, none of them empty.
CompleteFor(kind, c) == \A k \in KeysOfKind(kind) : k \in DOMAIN c /\ c[k] # ""

\* C16: for every valid provider configuration the factory returns an adapter
\* (it raises nothing) holding that configuration, whose provider kind is the
\* configured kind and whose validate_configuration() is true; no network
\* call is made by the construction or by the validation.
C16_ValidConfiguration ==
    (cfgTask = "factory" /\ provider_type \in ProviderKinds
        /\ CompleteFor(provider_type, config))
        => /\ cfgPc # "start"
                => (adapter.cls # "none" /\ adapter.config = config
                      /\ cfgErr = "none")
           /\ cfgPc \in {"inspected", "done"}
                => (valid.kind = provider_type /\ valid.ok)
           /\ cfgPc \in {"start", "built", "inspected"} => netCalls = 0

C16_Witness ==
    /\ cfgTask = "factory" /\ cfgPc = "inspected"
    /\ provider_type = "exchange"
    /\ config = [k \in ExchangeKeys |-> "v"]
    /\ adapter = [cls |-> "ExchangeProvider", config |-> config]
    /\ valid = [kind |-> "exchange", ok |-> TRUE]
    /\ netCalls = 0

----------------------------------------------------------------------------
(* C17 *)

\* C17 as stated: for every provider configuration that lacks a required
\* field of its kind (the key is not there, or its value is empty) the
\* construction fails with a configuration error: no adapter holds the
\* configuration, and no network call is made.
C17_AsStated ==
    (cfgTask = "factory" /\ provider_type \in ProviderKinds
        /\ ~CompleteFor(provider_type, config))
        => /\ adapter.cls = "none"
           /\ netCalls = 0
           /\ cfgPc # "start" => (cfgPc = "done" /\ cfgErr # "none")

\* What the code keeps of C17: an Exchange adapter built from a configuration
\* that lacks a required field never reaches the network.
C17_NoNetworkCall ==
    (cfgTask = "factory" /\ ~CompleteFor("exchange", config)) => netCalls = 0

----------------------------------------------------------------------------
(* C18 *)

\* The argument carries a parameter set with every field of the kind, none of
\* them empty.
ParameterSetComplete(kind, arg) ==
    /\ arg.given = "set"
    /\ DOMAIN arg.fields = KeysOfKind(kind)
    /\ \A k \in DOMAIN arg.fields : arg.fields[k] \notin {"", " "}

\* C18 as stated: every EmailProviderConfig that was built, for either kind,
\* has the parameter set of its declared kind, with every field non-empty.
C18_AsStated ==
    (cfgTask = "schema" /\ provider_config.built)
        => ParameterSetComplete(provider_config.provider,
                                IF provider_config.provider = "gmail"
                                THEN provider_config.gmail_config
                                ELSE provider_config.exchange_config)

\* What the code keeps of C18: an exchange parameter set that is passed, and
\* a gmail one, never has an empty field, and an exchange set is never partial.
C18_NoEmptyField ==
    (cfgTask = "schema" /\ provider_config.built)
        => /\ provider_config.exchange_config.given = "set"
                => ParameterSetComplete("exchange", provider_config.exchange_config)
           /\ \A k \in DOMAIN provider_config.gmail_config.fields :
                provider_config.gmail_config.fields[k] \notin {"", " "}

----------------------------------------------------------------------------
(* C19 *)

\* C19: get_config takes every field either from the override, when the
\* override carries the account email, or from the configuration file: the
\* result has exactly the keys of that source (and the provider configuration
\* derived from it, when one could be built), each with the value of that
\* source, and nothing that comes from the other source.
C19_AllOrNothing ==
    (cfgTask = "load" /\ cfgPc = "done")
        => LET fromOverride == "email" \in DOMAIN configurable
               src    == IF fromOverride THEN "override" ELSE "file"
               other  == IF fromOverride THEN "file" ELSE "override"
               chosen == IF fromOverride THEN configurable ELSE fileData
           IN  /\ DOMAIN config_data \ {"email_provider_config"} = DOMAIN chosen
               /\ \A k \in DOMAIN config_data : config_data[k].from # other
               /\ \A k \in DOMAIN chosen :
                    /\ config_data[k].from = src
                    /\ \/ config_data[k].val = chosen[k].val
                       \/ envSet /\ chosen[k].val = "${EMAIL_PROVIDER}"
               /\ provider_config.built
                    <=> "email_provider_config" \in DOMAIN config_data

C19_Witness ==
    /\ cfgTask = "load" /\ cfgPc = "done"
    /\ DOMAIN configurable = {"email"}
    /\ DOMAIN fileData = LoadKeys
    /\ fileData["email_provider"].val = "exchange"
    /\ fileData["exchange_config"].val = "complete"
    /\ DOMAIN config_data = {"email", "email_provider_config"}
    /\ config_data["email"].from = "override"
    /\ provider_config.built /\ provider_config.provider = "gmail"

----------------------------------------------------------------------------
(* The coroutines of two operations on one asyncio event loop               *)
(*                                                                         *)
(* A coroutine runs on the loop's only thread from one suspension point to  *)
(* the next.  "await asyncio.sleep(...)" suspends it and gives the thread   *)
(* back to the loop; a plain call (requests.get / post / patch,             *)
(* app.acquire_token_by_device_flow) keeps the thread until it returns, and *)
(* awaiting a coroutine that does not itself suspend does not suspend.      *)
(* Positions of a task: "cred" (about to request credentials), "device"     *)
(* (inside acquire_token_by_device_flow), "ready" (about to issue a         *)
(* request), "request" (inside the requests call), "rate-wait" and          *)
(* "backoff" (inside asyncio.sleep), "done".                                *)

Upd(f, t, v) == [f EXCEPT ![t] = v]

\* The loop gives its thread to a task that can run.
LoopSchedule(t) ==
    /\ running = "none"
    /\ tpc[t] \in {"cred", "ready"}
    /\ running' = t
    /\ UNCHANGED <<tpc, tattempt>>
    /\ UNCHANGED <<opVars, credVars, cfgVars, convVars>>

\* credentials = await get_exchange_credentials(...): the silent acquisition
\* gives a token, or the device flow is started and the task enters
\* acquire_token_by_device_flow, or the request fails.
TaskCredentials(t) ==
    /\ running = t /\ tpc[t] = "cred"
    /\ \E how \in {"silent", "device", "fail"} :
         /\ tpc' = Upd(tpc, t, CASE how = "silent" -> "ready"
                                  [] how = "device" -> "device"
                                  [] OTHER          -> "done")
         /\ running' = (IF how = "fail" THEN "none" ELSE t)
    /\ UNCHANGED tattempt
    /\ UNCHANGED <<opVars, credVars, cfgVars, convVars>>

\* acquire_token_by_device_flow returns: the user has authorized, or the flow
\* has expired.
TaskDeviceFlowDone(t) ==
    /\ running = t /\ tpc[t] = "device"
    /\ \E authorized \in BOOLEAN :
         /\ tpc' = Upd(tpc, t, IF authorized THEN "ready" ELSE "done")
         /\ running' = (IF authorized THEN t ELSE "none")
    /\ UNCHANGED tattempt
    /\ UNCHANGED <<opVars, credVars, cfgVars, convVars>>

\* response = requests.patch(...): the task enters the call.
TaskRequest(t) ==
    /\ running = t /\ tpc[t] = "ready"
    /\ tpc' = Upd(tpc, t, "request")
    /\ UNCHANGED <<running, tattempt>>
    /\ UNCHANGED <<opVars, credVars, cfgVars, convVars>>

\* The requests call returns or raises, and the body of the retry loop runs
\* up to its next suspension point.
TaskAnswer(t) ==
    /\ running = t /\ tpc[t] = "request"
    /\ \E answer \in {"success", "429", "exc", "error"} :
         CASE answer = "success" ->
                /\ tpc' = Upd(tpc, t, "done") /\ running' = "none"
                /\ UNCHANGED tattempt
           [] answer = "429" ->
                /\ tpc' = Upd(tpc, t, "rate-wait") /\ running' = "none"
                /\ tattempt' = Upd(tattempt, t, tattempt[t] + 1)
           [] answer = "exc" /\ tattempt[t] < max_retries - 1 ->
                /\ tpc' = Upd(tpc, t, "backoff") /\ running' = "none"
                /\ tattempt' = Upd(tattempt, t, tattempt[t] + 1)
           [] answer = "error" /\ tattempt[t] < max_retries - 1 ->
                /\ tpc' = Upd(tpc, t, "ready") /\ running' = t
                /\ tattempt' = Upd(tattempt, t, tattempt[t] + 1)
           [] OTHER ->
                /\ tpc' = Upd(tpc, t, "done") /\ running' = "none"
                /\ UNCHANGED tattempt
    /\ UNCHANGED <<opVars, credVars, cfgVars, convVars>>

\* The sleep is over: the loop, when it has its thread, makes the task
\* runnable again (after the sleep of the last attempt the loop ends).
TaskWake(t) ==
    /\ running = "none"
    /\ tpc[t] \in {"rate-wait", "backoff"}
    /\ tpc' = Upd(tpc, t, IF tattempt[t] = max_retries THEN "done" ELSE "ready")
    /\ UNCHANGED <<running, tattempt>>
    /\ UNCHANGED <<opVars, credVars, cfgVars, convVars>>

TaskStep(t) ==
    \/ LoopSchedule(t)
    \/ TaskCredentials(t)
    \/ TaskDeviceFlowDone(t)
    \/ TaskRequest(t)
    \/ TaskAnswer(t)
    \/ TaskWake(t)

InitLoop ==
    /\ OpIdle /\ CredIdle /\ CfgIdle /\ ConvIdle
    /\ tpc = [t \in Tasks |-> "cred"]
    /\ running = "none"
    /\ tattempt = [t \in Tasks |-> 0]

NextLoop == \E t \in Tasks : TaskStep(t)

SpecLoop == InitLoop /\ [][NextLoop]_vars

----------------------------------------------------------------------------
(* C20 *)

InFlight(t) == tpc[t] # "done"

\* C20 as stated: while an in-flight operation is performing a back-end
\* request, is in a rate-limit wait or a backoff wait, or is waiting for the
\* device-flow authorization, every other in-flight operation can take a step.
C20_AsStated ==
    \A a \in Tasks, b \in Tasks :
        (a # b /\ tpc[a] \in {"request", "rate-wait", "backoff", "device"}
            /\ InFlight(b))
            => ENABLED TaskStep(b)

\* What the code keeps of C20: a task in a rate-limit wait or a backoff wait
\* does not hold the loop's thread.
C20_SleepsCooperative ==
    \A a \in Tasks : tpc[a] \in {"rate-wait", "backoff"} => running # a

----------------------------------------------------------------------------
(* C21 *)

\* The request went through _get_token_cache.
CacheLoaded == seen.file # "unread"

\* C21: loading the token cache file never fails a credential request.  An
\* absent file is a cold start: the cache is empty, no warning is logged and
\* the change flag is clear.  Whatever another process writing the same file
\* has left of it (a complete but stale document, a file truncated to zero
\* bytes, a partly written one), the request goes on with the document's
\* cache or an empty one, and when it ends it ends with credentials or an
\* authentication error.
C21_CacheLoadNeverFails ==
    CacheLoaded =>
        /\ coutcome # "raise:load"
        /\ Len(clog) >= 2
        /\ seen.file = "absent"
              => /\ cache = "empty" /\ ~warned
                 /\ Len(clog) = 2 => ~has_state_changed
        /\ seen.file \in {"truncated", "partial", "corrupt", "unreadable"}
              => cache = "empty"
        /\ seen.file = "valid"
              => cache = (IF seen.account THEN "account" ELSE "noaccount")
        /\ cpc = "done"
              => coutcome \in {"return", "raise:auth", "raise:device-flow"}

\* The request read the file while the other process was half way through
\* rewriting it, and still returned credentials.
C21_Witness ==
    /\ seen.file = "partial" /\ warned /\ cache = "empty"
    /\ cpc = "done" /\ coutcome = "return"

----------------------------------------------------------------------------
----------------------------------------------------------------------------
(* The conversions between Graph resources and the canonical records       *)
(*                                                                         *)
(* A text is a sequence of tokens: a token is a word, one of the markup    *)
(* characters "<", ">" and "/", a white-space character or a character     *)
(* reference.  "NBSP" is the no-break space U+00A0 that unescape() makes   *)
(* of "&nbsp;"; Python's \s and str.strip() count it as white space.       *)

Whitespace == {" ", "\n", "\t", "NBSP"}

\* str.lower() on the tokens whose case matters to the code.
Lower(t) ==
    CASE t \in {"SCRIPT", "Script"} -> "script"
      [] t \in {"STYLE", "Style"} -> "style"
      [] t = "HTML" -> "html"
      [] t = "Text" -> "text"
      [] t \in {"Re:", "RE:", "rE:"} -> "re:"
      [] OTHER -> t

\* dict.get(k, d)
Get(r, k, d) == IF k \in DOMAIN r THEN r[k] ELSE d

Min(S) == CHOOSE x \in S : \A y \in S : x <= y

\* RemoveBlocks that removes nothing: script and style content stays.
RemoveBlocksKeepContent(s) == s

\* re.sub(r'<(script|style)[^>]*>.*?</\1>', '', content,
\*        flags=re.DOTALL | re.IGNORECASE): a match at s[1] runs from the
\* opening tag, which ends at the first ">" (j, for "[^>]*>"), to the end of
\* the first closing tag of the same element after it (e, for ".*?</\1>");
\* without a match at s[1] the search goes on at s[2].
RECURSIVE RemoveBlocks(_)
RemoveBlocks(s) ==
    IF s = <<>> THEN <<>>
    ELSE LET opens == /\ Len(s) >= 2 /\ s[1] = "<"
                      /\ Lower(s[2]) \in {"script", "style"}
             js == {i \in 3..Len(s) : s[i] = ">"}
             j  == IF opens /\ js # {} THEN Min(js) ELSE 0
             ks == {k \in (j + 1)..(Len(s) - 3) :
                      /\ s[k] = "<" /\ s[k + 1] = "/"
                      /\ Lower(s[k + 2]) = Lower(s[2]) /\ s[k + 3] = ">"}
             e  == IF j = 0 \/ ks = {} THEN 0 ELSE Min(ks) + 3
         IN  IF e = 0 THEN <<s[1]>> \o RemoveBlocks(Tail(s))
             ELSE RemoveBlocks(SubSeq(s, e + 1, Len(s)))

\* re.sub(r'<[^>]+>', '', content)
RECURSIVE StripTags(_)
StripTags(s) ==
    IF s = <<>> THEN <<>>
    ELSE LET js == {j \in 2..Len(s) : s[j] = ">"}
             j == IF s[1] = "<" /\ js # {} /\ Min(js) >= 3 THEN Min(js) ELSE 0
         IN  IF j = 0 THEN <<s[1]>> \o StripTags(Tail(s))
             ELSE StripTags(SubSeq(s, j + 1, Len(s)))

\* html.unescape(content)
Unescape(s) ==
    [i \in 1..Len(s) |->
        CASE s[i] = "&amp;" -> "&"
          [] s[i] = "&lt;" -> "<"
          [] s[i] = "&gt;" -> ">"
          [] s[i] = "&nbsp;" -> "NBSP"
          [] OTHER -> s[i]]

\* re.sub(r'\s+', ' ', content)
RECURSIVE CollapseWhitespace(_)
CollapseWhitespace(s) ==
    IF s = <<>> THEN <<>>
    ELSE IF s[1] \in Whitespace
         THEN IF Len(s) >= 2 /\ s[2] \in Whitespace
              THEN CollapseWhitespace(Tail(s))
              ELSE <<" ">> \o CollapseWhitespace(Tail(s))
         ELSE <<s[1]>> \o CollapseWhitespace(Tail(s))

RECURSIVE LStrip(_)
LStrip(s) == IF s # <<>> /\ s[1] \in Whitespace THEN LStrip(Tail(s)) ELSE s

\* str.strip()
Strip(s) == Reverse(LStrip(Reverse(LStrip(s))))

\* "No message body available."
NoBodySentinel == <<"No message body available.">>

\* extract_exchange_message_body(body); body is a record with any of the
\* fields content and contentType, EmptyMap for {} or None.
ExtractExchangeMessageBody(body) ==
    IF body = EmptyMap THEN NoBodySentinel
    ELSE LET content == Get(body, "content", <<>>)
             content_type == Lower(Get(body, "contentType", "text"))
         IN  IF content = <<>> THEN NoBodySentinel
             ELSE LET html == IF content_type = "html"
                              THEN Strip(CollapseWhitespace(Unescape(
                                       StripTags(RemoveBlocks(content)))))
                              ELSE content
                      plain == IF content_type = "text" \/ Strip(html) = <<>>
                               THEN IF html # <<>>
                                    THEN Strip(CollapseWhitespace(html))
                                    ELSE <<>>
                               ELSE html
                  IN  IF plain # <<>> THEN plain ELSE NoBodySentinel

\* A Graph recipient {"emailAddress": {"address": a, "name": n}}.
Recipient(a, n) == [emailAddress |-> [address |-> a, name |-> n]]

\* ThreadId without the fallback to the message id.
ThreadIdNoFallback(msg) == Get(msg, "conversationId", "")

\* thread_id = exchange_msg.get("conversationId", message_id)
ThreadId(msg) == Get(msg, "conversationId", msg.id)

\* from_email: the address of "from", "" without one.
FromEmail(msg) ==
    LET from_info == Get(msg, "from", EmptyMap) IN
    IF from_info # EmptyMap /\ "emailAddress" \in DOMAIN from_info
    THEN Get(from_info.emailAddress, "address", "")
    ELSE ""

\* to_email: the address of the first of "toRecipients", "" without one.
ToEmail(msg) ==
    LET to_recipients == Get(msg, "toRecipients", <<>>) IN
    IF to_recipients # <<>>
    THEN Get(to_recipients[1].emailAddress, "address", "")
    ELSE ""

\* convert_exchange_message_to_email_data(exchange_msg): the EmailData, or
\* the KeyError of a message without "id".
ConvertExchangeMessageToEmailData(msg) ==
    IF "id" \notin DOMAIN msg
    THEN [raised |-> "KeyError", email |-> EmptyMap]
    ELSE [raised |-> "none",
          email |-> [id |-> msg.id,
                     thread_id |-> ThreadId(msg),
                     from_email |-> FromEmail(msg),
                     to_email |-> ToEmail(msg),
                     subject |-> Get(msg, "subject", <<>>),
                     page_content |->
                         ExtractExchangeMessageBody(Get(msg, "body", EmptyMap)),
                     send_time |-> Get(msg, "receivedDateTime", "")]]

\* dt.split("T")[0]
BeforeT(dt) ==
    LET ts == {i \in 1..Len(dt) : dt[i] = "T"} IN
    IF ts = {} THEN dt ELSE SubSeq(dt, 1, Min(ts) - 1)

\* EventTime that copies the raw date-time of an all-day event.
EventTimeUntruncated(info, all_day) ==
    IF all_day
    THEN [date |-> Get(info, "dateTime", <<>>)]
    ELSE [dateTime |-> Get(info, "dateTime", <<>>),
          timeZone |-> Get(info, "timeZone", "UTC")]

\* converted["start"] / converted["end"] of _convert_exchange_event: the same
\* code for both, under the one isAllDay flag of the event.
EventTime(info, all_day) ==
    IF all_day
    THEN [date |-> IF Get(info, "dateTime", <<>>) # <<>>
                   THEN BeforeT(info.dateTime) ELSE <<>>]
    ELSE [dateTime |-> Get(info, "dateTime", <<>>),
          timeZone |-> Get(info, "timeZone", "UTC")]

\* _convert_exchange_event(exchange_event).  Its except branch needs a field
\* of another type than the Graph event resource declares (a location that
\* is no object); the events here are of the declared types.
ConvertExchangeEvent(e) ==
    LET all_day == Get(e, "isAllDay", FALSE) IN
    [summary |-> Get(e, "subject", "No Title"),
     start |-> EventTime(Get(e, "start", EmptyMap), all_day),
     end |-> EventTime(Get(e, "end", EmptyMap), all_day)]
    @@ (IF "location" \in DOMAIN e /\ e.location # EmptyMap
        THEN [location |-> Get(e.location, "displayName", "")] ELSE EmptyMap)
    @@ (IF "bodyPreview" \in DOMAIN e
        THEN [description |-> e.bodyPreview] ELSE EmptyMap)

\* StartsWithRe without lower(): only "re:" itself is recognised.
StartsWithReCaseSensitive(subject) == subject # <<>> /\ subject[1] = "re:"

\* original_subject.lower().startswith("re:")
StartsWithRe(subject) == subject # <<>> /\ Lower(subject[1]) = "re:"

\* reply_subject of create_exchange_message
ReplySubject(original_subject) ==
    IF ~StartsWithRe(original_subject)
    THEN <<"Re:", " ">> \o original_subject
    ELSE original_subject

\* The entries of a recipient list that have an address, each with its name
\* defaulting to the address.
RECURSIVE WithAddress(_)
WithAddress(list) ==
    IF list = <<>> THEN <<>>
    ELSE LET email_addr == Get(list[1], "emailAddress", EmptyMap) IN
         (IF Get(email_addr, "address", "") # ""
          THEN <<Recipient(email_addr.address,
                           Get(email_addr, "name", email_addr.address))>>
          ELSE <<>>) \o WithAddress(Tail(list))

\* GetExchangeRecipients that appends the additional recipients to "to".
GetExchangeRecipientsAddnToTo(original_message, addn_recipients) ==
    [toRecipients |->
         WithAddress(IF "from" \in DOMAIN original_message
                     THEN <<original_message["from"]>> ELSE <<>>)
         \o [i \in 1..Len(addn_recipients) |->
                Recipient(addn_recipients[i], addn_recipients[i])],
     ccRecipients |-> WithAddress(Get(original_message, "ccRecipients", <<>>)),
     bccRecipients |-> <<>>]

\* get_exchange_recipients(original_message, addn_recipients); None and []
\* are both <<>>.
GetExchangeRecipients(original_message, addn_recipients) ==
    [toRecipients |->
         WithAddress(IF "from" \in DOMAIN original_message
                     THEN <<original_message["from"]>> ELSE <<>>),
     ccRecipients |->
         WithAddress(Get(original_message, "ccRecipients", <<>>))
         \o [i \in 1..Len(addn_recipients) |->
                Recipient(addn_recipients[i], addn_recipients[i])],
     bccRecipients |-> <<>>]

\* The message structure create_exchange_message builds around message_body:
\* subject, recipients and, for an original with a conversation id, the
\* In-Reply-To and References headers.
ReplyMessage(original_message, message_body, recipients) ==
    [subject |-> ReplySubject(Get(original_message, "subject", <<>>)),
     body |-> message_body,
     toRecipients |-> recipients.toRecipients,
     ccRecipients |-> recipients.ccRecipients,
     bccRecipients |-> recipients.bccRecipients]
    @@ (IF Get(original_message, "conversationId", "") # ""
        THEN [internetMessageHeaders |->
                 <<[name |-> "In-Reply-To",
                    value |-> Get(original_message, "internetMessageId", "")],
                   [name |-> "References",
                    value |-> Get(original_message, "internetMessageId", "")]>>]
        ELSE EmptyMap)

\* CreateExchangeMessage that declares the reply body as HTML.
CreateExchangeMessageHtmlBody(original_message, response_text, recipients) ==
    ReplyMessage(original_message,
                 [contentType |-> "html", content |-> response_text], recipients)

\* create_exchange_message(original_message, response_text, recipients,
\* user_email)
CreateExchangeMessage(original_message, response_text, recipients) ==
    ReplyMessage(original_message,
                 [contentType |-> "text", content |-> response_text], recipients)

\* What Graph keeps of a message posted to /me/sendMail: the message as
\* posted, under the id and the conversation id the service gives it.
StoreSent(message, id, conversationId) ==
    [id |-> id, conversationId |-> conversationId,
     subject |-> message.subject, body |-> message.body,
     toRecipients |-> message.toRecipients]

\* ExchangeProvider.send_calendar_invite hands its timezone argument on;
\* this one leaves it out, so that the default applies.
InviteTimezoneDefault(args) == "UTC"

\* timezone: str = "UTC" of ExchangeProvider.send_calendar_invite, passed on
\* as timezone=timezone.
InviteTimezone(args) == Get(args, "timezone", "UTC")

\* The Windows time zone name of an abbreviation.
WindowsTimezone(timezone) ==
    CASE timezone = "PST" -> "Pacific Standard Time"
      [] timezone = "EST" -> "Eastern Standard Time"
      [] OTHER -> timezone

\* _format_datetime_for_exchange(dt_str, timezone): the date-time without a
\* trailing "Z", with seven digits of fraction, and the time zone name.
FormatDatetimeForExchange(dt_str, timezone) ==
    [dateTime |-> SelectSeq(dt_str, LAMBDA t : t # "Z") \o <<".0000000">>,
     timeZone |-> WindowsTimezone(timezone)]

\* The event send_exchange_calendar_invite posts to Graph.
BuildExchangeEventObject(call) ==
    [subject |-> call.title,
     start |-> FormatDatetimeForExchange(call.start_time, call.timezone),
     end |-> FormatDatetimeForExchange(call.end_time, call.timezone)]

----------------------------------------------------------------------------
(* _substitute_env_vars of src/eaia/main/config.py *)

\* The values of a loaded configuration: a str with its characters, a dict
\* with its items, and the values that are neither (None, a list).
Str(chars) == [type |-> "str", chars |-> chars]
Dict(items) == [type |-> "dict", items |-> items]

\* _substitute_env_vars without the recursion into the dict's values.
SubstituteTopLevelOnly(config_dict, environ) ==
    IF /\ config_dict.type = "str"
       /\ Len(config_dict.chars) >= 3
       /\ SubSeq(config_dict.chars, 1, 2) = <<"$", "{">>
       /\ config_dict.chars[Len(config_dict.chars)] = "}"
       /\ SubSeq(config_dict.chars, 3, Len(config_dict.chars) - 1)
             \in DOMAIN environ
    THEN Str(environ[SubSeq(config_dict.chars, 3, Len(config_dict.chars) - 1)])
    ELSE config_dict

\* _substitute_env_vars(config_dict): a dict is rebuilt with every value
\* substituted; a str that startswith("${") and endswith("}") is looked up
\* under config_dict[2:-1] with os.getenv, whose default is the str itself;
\* any other value is returned as it is.
RECURSIVE Substitute(_, _)
Substitute(config_dict, environ) ==
    IF config_dict.type = "dict"
    THEN Dict([k \in DOMAIN config_dict.items |->
                  Substitute(config_dict.items[k], environ)])
    ELSE IF /\ config_dict.type = "str"
            /\ Len(config_dict.chars) >= 2
            /\ SubSeq(config_dict.chars, 1, 2) = <<"$", "{">>
            /\ config_dict.chars[Len(config_dict.chars)] = "}"
         THEN LET env_var == SubSeq(config_dict.chars, 3,
                                    Len(config_dict.chars) - 1)
              IN  IF env_var \in DOMAIN environ
                  THEN Str(environ[env_var]) ELSE config_dict
         ELSE config_dict

----------------------------------------------------------------------------
(* The inputs of the conversions *)

\* A field that is absent, or present with one of the values V.
Optional(k, V) == {EmptyMap} \cup {[x \in {k} |-> v] : v \in V}

Html(content) == [contentType |-> "html", content |-> content]
PlainText(content) == [contentType |-> "text", content |-> content]

PriceHtml ==
    <<"<", "p", ">", "Price:", " ", "$100", " ", "&amp;", " ", "free",
      "<", "/", "p", ">">>

\* HTML whose tags, script blocks and style blocks hold no text.
EmptyHtml ==
    {<<"<", "p", ">", "<", "/", "p", ">">>,
     <<"<", "script", ">", "alert", "<", "/", "script", ">">>,
     <<"<", "STYLE", " ", "media", ">", "p", "\n", "<", "/", "style", ">",
       "<", "br", "/", ">">>,
     <<" ", "\n">>}

\* HTML with text, paired with the text the normalization is to give.
TextHtml ==
    {<<PriceHtml, <<"Price:", " ", "$100", " ", "&", " ", "free">> >>,
     <<(<<"<", "script", " ", "defer", ">", "alert", "<", "/", "script", ">",
          "<", "b", ">", "Hello", "<", "/", "b", ">">>), <<"Hello">> >>,
     <<(<<"<", "p", ">", " ", "Hi", "&nbsp;", "\n", "there", " ",
          "<", "/", "p", ">">>), <<"Hi", " ", "there">> >>,
     <<(<<"a", " ", "<", "style", ">", "x", "<", "b", ">", "y",
          "<", "/", "style", ">", "z">>), <<"a", " ", "z">> >>,
     <<(<<"1", " ", "&lt;", " ", "2">>), <<"1", " ", "<", " ", "2">> >>}

PlainTexts == {<<>>, <<" ", "\t">>, <<"Hello">>, <<"Hi,", "\n", "\n", "thanks", " ">>}

Bodies ==
    {EmptyMap, [contentType |-> "text"], [contentType |-> "html"],
     [content |-> <<"Hi", " ", " ", "there">>],
     [contentType |-> "HTML", content |-> PriceHtml],
     [contentType |-> "rtf", content |-> <<" ">>],
     Html(<<"&nbsp;">>), Html(<<"<", "script", ">", "x">>)}
    \cup {Html(c) : c \in EmptyHtml}
    \cup {Html(p[1]) : p \in TextHtml}
    \cup {PlainText(c) : c \in PlainTexts}

MessageBodies == {Html(PriceHtml), PlainText(<<"Hello">>), PlainText(<<>>)}

\* Messages as Graph returns them: "id" and "conversationId", when present,
\* are non-empty strings.
Messages ==
    {[id |-> "m1"] @@ c @@ sb @@ f @@ t @@ b :
        c \in Optional("conversationId", {"c1"}),
        sb \in Optional("subject", {<<"Hello">>}),
        f \in Optional("from", {Recipient("s@x", "S")}),
        t \in Optional("toRecipients", {<<Recipient("u@x", "U")>>}),
        b \in Optional("body", MessageBodies)}
    \cup {[subject |-> <<"no id">>]}

AllDayStart == <<"2024-01-15", "T", "00:00:00Z">>

EventTimes ==
    {[dateTime |-> AllDayStart, timeZone |-> "UTC"],
     [dateTime |-> <<"2024-01-16", "T", "00:00:00.0000000">>,
      timeZone |-> "Pacific Standard Time"],
     [dateTime |-> <<"2024-01-15", "T", "10:30:00">>]}

Events ==
    {[subject |-> "standup"] @@ a @@ l @@ [start |-> st, end |-> en] :
        a \in Optional("isAllDay", BOOLEAN),
        l \in Optional("location", {[displayName |-> "Room 1"]}),
        st \in EventTimes, en \in EventTimes}

Subjects ==
    {<<>>, <<"Hello">>, <<"Re:", " ", "Hello">>, <<"RE:", " ", "Hello">>,
     <<"re:", "Hello">>, <<"Re:">>, <<"Regarding", " ", "Re:", " ", "x">>,
     <<" ", "Re:", " ", "Hello">>}

Originals ==
    {[id |-> "m1"] @@ sb @@ c :
        sb \in Optional("subject", Subjects),
        c \in Optional("conversationId", {"c1"})}

Froms ==
    {Recipient("s@x", "S"), [emailAddress |-> [address |-> "s@x"]],
     [emailAddress |-> [name |-> "S"]]}

OriginalCcs ==
    {<<>>, <<Recipient("c1@x", "C1")>>,
     <<Recipient("c1@x", "C1"), Recipient("c2@x", "C2")>>,
     <<Recipient("c2@x", "C2"), Recipient("c1@x", "C1")>>,
     <<[emailAddress |-> [name |-> "nobody"]], Recipient("c1@x", "C1")>>}

AddnRecipients ==
    {<<>>, <<"a@x">>, <<"a@x", "b@x">>, <<"b@x", "a@x">>, <<"s@x">>}

RecipientCalls ==
    {[original_message |-> [id |-> "m1"] @@ f @@ cc, addn_recipients |-> addn] :
        f \in Optional("from", Froms),
        cc \in Optional("ccRecipients", OriginalCcs),
        addn \in AddnRecipients}

ResponseTexts ==
    {<<"Thanks">>, <<"Hi,", "\n", "\n", "thanks">>, <<" ", "Hi", " ">>,
     <<"a", " ", "<", "b", ">", " ", "c">>, <<" ">>}

ReplyCalls ==
    {[original_message |-> o, response_text |-> r] :
        o \in Originals, r \in {<<"Thanks">>}}

RoundTripCalls ==
    {[original_message |-> [id |-> "m1", conversationId |-> "c1"] @@ sb,
      response_text |-> r] :
        sb \in Optional("subject", {<<"Hello">>, <<"Re:", " ", "Hello">>}),
        r \in ResponseTexts}

InviteCalls ==
    {[title |-> "Sync", start_time |-> st,
      end_time |-> <<"2024-07-01", "T", "15:00:00">>] @@ tz :
        st \in {<<"2024-07-01", "T", "14:00:00">>,
                <<"2024-07-01", "T", "14:00:00", "Z">>},
        tz \in Optional("timezone", {"PST", "EST", "UTC", "Europe/London"})}

\* The values of a configuration key: placeholders of a variable that is set
\* ("A") and of one that is not ("B"), strings that are no placeholder or
\* only part of one, and values that are not strings.
Leaves ==
    {Str(<<"$", "{", "A", "}">>), Str(<<"$", "{", "B", "}">>),
     Str(<<"n", "o", "r", "m", "a", "l">>), Str(<<>>),
     Str(<<"x", "$", "{", "A", "}">>), Str(<<"$", "{", "A">>),
     Str(<<"$", "{", "A", "}", "x">>), Str(<<"$", "A", "}">>),
     Str(<<"$", "{", "}">>), Str(<<"$", "{", "A", "}", "$", "{", "A", "}">>),
     [type |-> "None"], [type |-> "list", items |-> <<Str(<<"$", "{", "A", "}">>)>>]}

\* os.environ: the variable A is set, to a value or to the empty string, or
\* no variable is.
Environs ==
    {EmptyMap} \cup {[n \in {<<"A">>} |-> v] : v \in {<<"v">>, <<>>}}

SubstituteCalls ==
    {[config_dict |-> c, environ |-> e] :
        c \in {Dict(EmptyMap)}
               \cup {Dict([key |-> l]) : l \in Leaves}
               \cup {Dict([email |-> Str(<<"m", "e">>),
                           exchange_config |->
                               Dict([tenant_id |-> l, client_secret |-> m])]) :
                        l \in Leaves, m \in Leaves},
        e \in Environs}

InputsOf(f) ==
    CASE f = "body" -> Bodies
      [] f = "substitute" -> SubstituteCalls
      [] f = "message" -> Messages
      [] f = "event" -> Events
      [] f = "reply" -> ReplyCalls
      [] f = "recipients" -> RecipientCalls
      [] f = "roundtrip" -> RoundTripCalls
      [] f = "invite" -> InviteCalls

Conversions ==
    {"body", "message", "event", "reply", "recipients", "roundtrip", "invite",
     "substitute"}

----------------------------------------------------------------------------
(* One application of one conversion *)

\* extract_exchange_message_body(body)
ExtractBody ==
    /\ fn = "body" /\ stage = "start"
    /\ output' = [text |-> ExtractExchangeMessageBody(input)]
    /\ stage' = "done"
    /\ UNCHANGED <<fn, input>>
    /\ UNCHANGED <<opVars, credVars, cfgVars, loopVars>>

\* convert_exchange_message_to_email_data(exchange_msg)
ConvertMessage ==
    /\ fn = "message" /\ stage = "start"
    /\ output' = ConvertExchangeMessageToEmailData(input)
    /\ stage' = "done"
    /\ UNCHANGED <<fn, input>>
    /\ UNCHANGED <<opVars, credVars, cfgVars, loopVars>>

\* _convert_exchange_event(exchange_event)
ConvertEvent ==
    /\ fn = "event" /\ stage = "start"
    /\ output' = ConvertExchangeEvent(input)
    /\ stage' = "done"
    /\ UNCHANGED <<fn, input>>
    /\ UNCHANGED <<opVars, credVars, cfgVars, loopVars>>

\* get_exchange_recipients(original_message, addn_recipients)
GetRecipients ==
    /\ fn = "recipients" /\ stage = "start"
    /\ output' = GetExchangeRecipients(input.original_message,
                                     input.addn_recipients)
    /\ stage' = "done"
    /\ UNCHANGED <<fn, input>>
    /\ UNCHANGED <<opVars, credVars, cfgVars, loopVars>>

\* create_exchange_message on the recipients of the original message
CreateReply ==
    /\ fn = "reply" /\ stage = "start"
    /\ output' = CreateExchangeMessage(input.original_message,
                     input.response_text,
                     GetExchangeRecipients(input.original_message, <<>>))
    /\ stage' = "done"
    /\ UNCHANGED <<fn, input>>
    /\ UNCHANGED <<opVars, credVars, cfgVars, loopVars>>

\* The round trip of a reply: the payload is built, Graph stores what was
\* posted, and the stored message is fetched and converted.
RoundTripCreate ==
    /\ fn = "roundtrip" /\ stage = "start"
    /\ output' = [message |->
                     CreateExchangeMessage(input.original_message,
                         input.response_text,
                         GetExchangeRecipients(input.original_message, <<>>))]
    /\ stage' = "payload"
    /\ UNCHANGED <<fn, input>>
    /\ UNCHANGED <<opVars, credVars, cfgVars, loopVars>>

RoundTripStore ==
    /\ fn = "roundtrip" /\ stage = "payload"
    /\ output' = [message |-> output.message,
                  stored |-> StoreSent(output.message, "sent1",
                                       input.original_message.conversationId)]
    /\ stage' = "stored"
    /\ UNCHANGED <<fn, input>>
    /\ UNCHANGED <<opVars, credVars, cfgVars, loopVars>>

RoundTripFetch ==
    /\ fn = "roundtrip" /\ stage = "stored"
    /\ output' = [message |-> output.message, stored |-> output.stored,
                  fetched |-> ConvertExchangeMessageToEmailData(output.stored)]
    /\ stage' = "done"
    /\ UNCHANGED <<fn, input>>
    /\ UNCHANGED <<opVars, credVars, cfgVars, loopVars>>

\* ExchangeProvider.send_calendar_invite: the call it makes of
\* send_exchange_calendar_invite.
InviteCall ==
    /\ fn = "invite" /\ stage = "start"
    /\ output' = [call |-> [title |-> input.title,
                            start_time |-> input.start_time,
                            end_time |-> input.end_time,
                            timezone |-> InviteTimezone(input)]]
    /\ stage' = "called"
    /\ UNCHANGED <<fn, input>>
    /\ UNCHANGED <<opVars, credVars, cfgVars, loopVars>>

\* send_exchange_calendar_invite: the event object of the request.
InviteSend ==
    /\ fn = "invite" /\ stage = "called"
    /\ output' = [call |-> output.call,
                  event |-> BuildExchangeEventObject(output.call)]
    /\ stage' = "done"
    /\ UNCHANGED <<fn, input>>
    /\ UNCHANGED <<opVars, credVars, cfgVars, loopVars>>

\* _substitute_env_vars(config_data), as get_config calls it
SubstituteConfig ==
    /\ fn = "substitute" /\ stage = "start"
    /\ output' = Substitute(input.config_dict, input.environ)
    /\ stage' = "done"
    /\ UNCHANGED <<fn, input>>
    /\ UNCHANGED <<opVars, credVars, cfgVars, loopVars>>

InitConvert ==
    /\ OpIdle /\ CredIdle /\ CfgIdle /\ LoopIdle
    /\ fn \in Conversions
    /\ input \in InputsOf(fn)
    /\ output = EmptyMap
    /\ stage = "start"

NextConvert ==
    \/ ExtractBody
    \/ ConvertMessage
    \/ ConvertEvent
    \/ GetRecipients
    \/ CreateReply
    \/ RoundTripCreate \/ RoundTripStore \/ RoundTripFetch
    \/ InviteCall \/ InviteSend
    \/ SubstituteConfig

SpecConvert == InitConvert /\ [][NextConvert]_vars

----------------------------------------------------------------------------
(* C22 *)

----------------------------------------------------------------------------
(* C23 *)

AllWhitespace(content) == \A i \in 1..Len(content) : content[i] \in Whitespace

\* C23: body normalization never gives an empty text.  An absent body, an
\* empty or white-space-only content and HTML that has only tags, script
\* blocks and style blocks give the sentinel; other HTML gives its text with
\* script and style blocks removed together with their content, the tags
\* stripped, the character references decoded and white space collapsed and
\* trimmed: '<p>Price: $100 &amp; free</p>' gives 'Price: $100 & free'.
C23_BodyNeverEmpty ==
    (fn = "body" /\ stage = "done")
        => /\ output.text # <<>>
           /\ output.text # <<"">>
           /\ (\/ input = EmptyMap
               \/ AllWhitespace(Get(input, "content", <<>>))
               \/ \E c \in EmptyHtml : input = Html(c))
                => output.text = NoBodySentinel
           /\ \A p \in TextHtml : input = Html(p[1]) => output.text = p[2]
           /\ input = Html(PriceHtml)
                => output.text = <<"Price:", " ", "$100", " ", "&", " ", "free">>

C23_Witness ==
    /\ fn = "body" /\ stage = "done"
    /\ input = Html(<<"<", "script", " ", "defer", ">", "alert", "<", "/",
                      "script", ">", "<", "b", ">", "Hello", "<", "/", "b", ">">>)
    /\ output.text = <<"Hello">>

----------------------------------------------------------------------------
(* C24 *)

AllDay(e) == "isAllDay" \in DOMAIN e /\ e.isAllDay

\* C24: start and end of a converted event have the same shape.  Of an
\* all-day event both are a date only, the raw date-time up to its "T"
\* ('2024-01-15T00:00:00Z' gives '2024-01-15'); of any other event both are
\* the raw date-time with a time zone name.
C24_EventTimesSameShape ==
    (fn = "event" /\ stage = "done")
        => /\ DOMAIN output.start = DOMAIN output.end
           /\ AllDay(input)
                => /\ DOMAIN output.start = {"date"}
                   /\ output.start.date = <<input.start.dateTime[1]>>
                   /\ output.end.date = <<input.end.dateTime[1]>>
                   /\ \A i \in 1..Len(output.start.date) : output.start.date[i] # "T"
                   /\ input.start.dateTime = AllDayStart
                        => output.start.date = <<"2024-01-15">>
           /\ ~AllDay(input)
                => /\ DOMAIN output.start = {"dateTime", "timeZone"}
                   /\ output.start.dateTime = input.start.dateTime
                   /\ output.end.dateTime = input.end.dateTime
                   /\ output.start.timeZone # "" /\ output.end.timeZone # ""

C24_Witness ==
    /\ fn = "event" /\ stage = "done"
    /\ AllDay(input) /\ input.start.dateTime = AllDayStart
    /\ output.start = [date |-> <<"2024-01-15">>]
    /\ output.end = [date |-> <<"2024-01-16">>]

----------------------------------------------------------------------------
(* C25 *)

OriginalSubject == Get(input.original_message, "subject", <<>>)

\* The subject begins with "Re: ", in any case of the letters.
BeginsWithRePrefix(subject) ==
    /\ Len(subject) >= 2
    /\ subject[1] \in {"Re:", "RE:", "re:", "rE:"}
    /\ subject[2] = " "

\* C25 as stated: the reply subject is the original subject prefixed with
\* 'Re: ' unless the original already begins with that prefix, in any case of
\* the letters, and then it is the original subject.
C25_AsStated ==
    (fn = "reply" /\ stage = "done")
        => output.subject = (IF BeginsWithRePrefix(OriginalSubject)
                             THEN OriginalSubject
                             ELSE <<"Re:", " ">> \o OriginalSubject)

\* C25: the reply subject is the original subject prefixed with 'Re: ' unless
\* the original already begins with 're:' in any case of the letters, with or
\* without a space after it, and then it is the original subject; replying to
\* the reply subject leaves it as it is ('Hello' gives 'Re: Hello' and
\* 'Re: Hello' gives 'Re: Hello').
C25_ReplySubject ==
    (fn = "reply" /\ stage = "done")
        => /\ output.subject =
                (IF /\ OriginalSubject # <<>>
                    /\ OriginalSubject[1] \in {"Re:", "RE:", "re:", "rE:"}
                 THEN OriginalSubject
                 ELSE <<"Re:", " ">> \o OriginalSubject)
           /\ ReplySubject(output.subject) = output.subject
           /\ OriginalSubject \in {<<"Hello">>, <<"Re:", " ", "Hello">>}
                => output.subject = <<"Re:", " ", "Hello">>

C25_Witness ==
    /\ fn = "reply" /\ stage = "done"
    /\ OriginalSubject = <<"RE:", " ", "Hello">>
    /\ output.subject = <<"RE:", " ", "Hello">>

----------------------------------------------------------------------------
(* C26 *)

HasAddress(r) ==
    /\ "emailAddress" \in DOMAIN r
    /\ "address" \in DOMAIN r.emailAddress
    /\ r.emailAddress.address # ""

Addresses(list) == [i \in 1..Len(list) |-> list[i].emailAddress.address]

----------------------------------------------------------------------------
(* C27 *)

\* The text with its white space collapsed and trimmed, the sentinel when
\* nothing is left.
NormalizedText(t) ==
    LET n == Strip(CollapseWhitespace(t)) IN
    IF n = <<>> THEN NoBodySentinel ELSE n

----------------------------------------------------------------------------
(* C28 *)

----------------------------------------------------------------------------
(* C29 *)

\* The kind a descriptor names: its provider_type, in any case of the letters
\* and with blanks around it; "none" when it has no provider_type, an empty
\* one or one that names no supported kind.
KindNamed(c) ==
    IF "provider_type" \notin DOMAIN c THEN "none"
    ELSE CASE c["provider_type"] \in {"gmail", " Gmail "} -> "gmail"
           [] c["provider_type"] \in {"exchange", "EXCHANGE"} -> "exchange"
           [] OTHER -> "none"

\* C29: get_provider_from_config fails with an error and constructs no
\* adapter when the provider kind of the descriptor is missing, empty or not
\* a supported kind; otherwise it returns an adapter of exactly the kind the
\* descriptor names.
C29_FromDescriptor ==
    (cfgTask = "descriptor" /\ cfgPc = "done")
        => IF KindNamed(config) = "none"
           THEN adapter = NoAdapter /\ cfgErr # "none"
           ELSE /\ cfgErr = "none"
                /\ adapter.cls = (IF KindNamed(config) = "gmail"
                                  THEN "GmailProvider" ELSE "ExchangeProvider")
                /\ ProviderTypeOf(adapter) = KindNamed(config)
                /\ adapter.config = config

C29_Witness ==
    /\ cfgTask = "descriptor" /\ cfgPc = "done"
    /\ config = [tenant_id |-> "v"]
    /\ adapter = NoAdapter
    /\ cfgErr = "ValueError: Missing 'provider_type' in configuration"

----------------------------------------------------------------------------
(* C30 *)

\* The configuration get_config loads, before the provider configuration is
\* added to it.
Loaded == SubstituteEnvVars(ChooseSource(configurable, fileData), envSet)

BlockOf(k) == IF k \in DOMAIN Loaded THEN Loaded[k].val ELSE "absent"

\* C30: loading the provider configuration never raises.  The kind is gmail
\* when none is given; the empty and null entries of a parameter set are
\* dropped, and a set with no entry left counts as absent; with a kind that is
\* not supported or a parameter set that fails validation there is no provider
\* configuration, and get_config returns the configuration without an
\* email_provider_config entry.
C30_LoadNeverRaises ==
    (cfgTask = "load" /\ cfgPc = "done")
        => LET kind == BlockOf("email_provider")
               gmailValid == BlockOf("gmail_config") # "blank token"
               exchangeValid ==
                   /\ BlockOf("exchange_config") \in {"absent", "empty", "complete"}
                   /\ kind = "exchange" => BlockOf("exchange_config") = "complete"
               supported == kind \in {"absent", "gmail", "exchange"}
           IN  /\ cfgErr = "none"
               /\ provider_config.built <=> (supported /\ gmailValid /\ exchangeValid)
               /\ provider_config.built
                    => /\ provider_config.provider
                            = (IF kind = "absent" THEN "gmail" ELSE kind)
                       /\ BlockOf("gmail_config") \in {"absent", "no entries"}
                            => provider_config.gmail_config = NoneArg
                       /\ BlockOf("gmail_config") = "token"
                            => provider_config.gmail_config
                                 = Arg("set", [gmail_token |-> "v"])
                       /\ BlockOf("exchange_config") \in {"absent", "empty"}
                            => provider_config.exchange_config = NoneArg
                       /\ "email_provider_config" \in DOMAIN config_data
               /\ ~provider_config.built => config_data = Loaded

\* A gmail configuration whose exchange block has only empty entries and whose
\* gmail block has a null secret: both are loaded as if the empty entries
\* were not there.
C30_Witness ==
    /\ cfgTask = "load" /\ cfgPc = "done"
    /\ BlockOf("email_provider") = "absent"
    /\ BlockOf("exchange_config") = "empty"
    /\ BlockOf("gmail_config") = "token"
    /\ provider_config.built /\ provider_config.provider = "gmail"
    /\ provider_config.exchange_config = NoneArg
    /\ provider_config.gmail_config = Arg("set", [gmail_token |-> "v"])

----------------------------------------------------------------------------
(* C31 *)

\* The string is the placeholder of the variable: "${" NAME "}".
PlaceholderOf(name) == Str(<<"$", "{">> \o name \o <<"}">>)

\* after is before with its placeholders resolved: a mapping goes to a mapping
\* of the same keys, resolved key by key; the placeholder of a variable that
\* is set goes to the variable's value; every other value stays.
RECURSIVE Resolved(_, _, _)
Resolved(before, after, environ) ==
    IF before.type = "dict"
    THEN /\ after.type = "dict"
         /\ DOMAIN after.items = DOMAIN before.items
         /\ \A k \in DOMAIN before.items :
               Resolved(before.items[k], after.items[k], environ)
    ELSE IF \E name \in DOMAIN environ : before = PlaceholderOf(name)
         THEN \E name \in DOMAIN environ :
                 before = PlaceholderOf(name) /\ after = Str(environ[name])
         ELSE after = before

\* C31: a configuration string of the exact form ${NAME} is replaced by the
\* value of the environment variable NAME when it is set and left as it is
\* when it is not; every other value, a string that only partly looks like a
\* placeholder included, is unchanged; values nested in mappings are resolved
\* by the same rule.
C31_PlaceholderResolution ==
    (fn = "substitute" /\ stage = "done")
        => Resolved(input.config_dict, output, input.environ)

\* A nested placeholder of a set variable beside one of an unset variable.
C31_Witness ==
    /\ fn = "substitute" /\ stage = "done"
    /\ input.environ = [n \in {<<"A">>} |-> <<"v">>]
    /\ "exchange_config" \in DOMAIN input.config_dict.items
    /\ input.config_dict.items.exchange_config.items.tenant_id
         = PlaceholderOf(<<"A">>)
    /\ input.config_dict.items.exchange_config.items.client_secret
         = PlaceholderOf(<<"B">>)
    /\ output.items.exchange_config.items.tenant_id = Str(<<"v">>)
    /\ output.items.exchange_config.items.client_secret = PlaceholderOf(<<"B">>)

----------------------------------------------------------------------------------------------------------------------------------------
(* C32 *)

\* C32: refresh_exchange_token never initiates a device flow.  Without a
\* cached account for the address it returns None and _save_token_cache is
\* not called; with one, _save_token_cache is called exactly once, and the
\* credentials with the new access token are returned if the silent
\* acquisition gave one, None if it did not.
C32_SilentRefresh ==
    /\ ~Initiated /\ ~Has("acquire:token") /\ ~Has("acquire:error")
    /\ cpc \in {"refresh", "refresh:silent", "done"}
    /\ cpc = "done"
         => /\ coutcome \in {"return", "return:none"}
            /\ ~(cache = "account")
                 => /\ coutcome = "return:none" /\ credentials = NoCredentials
                    /\ saveCalls = 0 /\ fileWrites = 0 /\ ~SilentTried
            /\ cache = "account"
                 => /\ saveCalls = 1
                    /\ fileWrites <= 1
                    /\ IF "access_token" \in DOMAIN result
                       THEN /\ coutcome = "return"
                            /\ credentials.access_token = result.access_token
                       ELSE /\ coutcome = "return:none"
                            /\ credentials = NoCredentials
    /\ cpc # "done" => saveCalls = 0 /\ coutcome = "none"

\* A refresh whose silent acquisition came back without an access token: the
\* cache was saved once and None returned.
C32_Witness ==
    /\ cpc = "done" /\ coutcome = "return:none"
    /\ clog = <<"load", "accounts:found", "silent:error", "save:write">>
    /\ saveCalls = 1 /\ result = ErrorResult

----------------------------------------------------------------------------
(* C33 *)

\* C33 as stated: an operation called without one of tenant_id, client_id
\* and client_secret takes the three from the environment; with one of the
\* three variables unset it fails with the error naming the missing variables
\* and has made no credential request and no back-end request; with the
\* three set it does not fail for want of a parameter.
C33_AsStated ==
    (pc = "done" /\ \E k \in AuthNames : ~auth_args[k])
        => IF \E k \in AuthNames : ~os_environ[k]
           THEN /\ outcome = "raise"
                /\ err = MissingEnvironment(os_environ)
                /\ credRequests = 0 /\ reqLog = <<>>
           ELSE err # MissingArgument /\ credKind \in {"object", "mapping"}

----------------------------------------------------------------------------
(* C34 *)

\* The last request of the fetch was answered 429 or with a page that has a
\* next-page link: the back end has not yet let the fetch end.
BackEndGoesOn ==
    /\ reqLog # <<>>
    /\ \/ reqLog[Len(reqLog)].resp.status = "429"
       \/ reqLog[Len(reqLog)].resp.status = "200" /\ reqLog[Len(reqLog)].resp.next

\* The page requests are in sequence: each is for the page the answer before
\* it leads to (the same page after 429, the next-link's page after a page
\* with a link), and nothing is requested after any other answer.
PagesInSequence ==
    \A i \in 1..(Len(reqLog) - 1) :
        /\ reqLog[i].resp.status = "429" => reqLog[i + 1].url = reqLog[i].url
        /\ reqLog[i].resp.status = "200"
             => reqLog[i].resp.next /\ reqLog[i + 1].url = reqLog[i].url + 1
        /\ reqLog[i].resp.status \in {"429", "200"}

\* C34: fetch_exchange_emails returns or raises on every execution in which
\* the back end stops answering 429 and returns a page without a next-page
\* link (within the answers the model follows it for); the page requests are
\* strictly in sequence; and the fetch follows every next-page link it is
\* given: it never ends by itself while the back end goes on.
C34_FetchTerminates ==
    /\ [](PagesInSequence /\ (pc = "done" => ~BackEndGoesOn))
    /\ <>(pc = "done" \/ (Len(reqLog) = MaxRequests /\ BackEndGoesOn))

\* A fetch that was rate limited twice and followed a link before the page
\* without a link ended it.
C34_Witness ==
    /\ op = "fetch" /\ pc = "done" /\ outcome = "return"
    /\ Len(reqLog) = MaxRequests
    /\ reqLog[1].resp.status = "429" /\ reqLog[3].resp.status = "429"
    /\ reqLog[2].resp.next /\ reqLog[4].url = 1

----------------------------------------------------------------------------
(* C35 *)

\* The number of 429 answers in the log.
RateLimitedCount == Len(SelectSeq(reqLog, LAMBDA e : e.resp.status = "429"))

\* The pages received up to request i, 429 answers left out.
PagesBefore(i) ==
    SelectSeq(SubSeq(reqLog, 1, i - 1), LAMBDA e : e.resp.status = "200")

\* C35: in fetch a 429 answer to the request for page k, the first page or
\* one reached through a next-page link, is followed, after the wait, by the
\* request for the same page k; the request answered 429 adds no record and
\* takes none away; the pages received are the pages 0, 1, 2, ... without a
\* gap and each once, and the records accumulated are theirs, each once.
C35_RateLimitedPageAgain ==
    op = "fetch"
        => /\ \A i \in 1..Len(reqLog) :
                /\ reqLog[i].url = Len(PagesBefore(i))
                /\ reqLog[i].resp.status = "429"
                     => IF i < Len(reqLog)
                        THEN reqLog[i + 1].url = reqLog[i].url
                        ELSE pc = "loop" /\ next_link = reqLog[i].url
           /\ Len(sleeps) = RateLimitedCount
           /\ Len(emails) + skipped = CountRecords(OkPages)
           /\ IdsOf(emails) = ConcatGoodIds(PagesBefore(Len(reqLog) + 1))

\* The second page was answered 429, requested again and received: the
\* records of both pages are there once.
C35_Witness ==
    /\ op = "fetch" /\ pc = "done" /\ outcome = "return"
    /\ Len(reqLog) = 3
    /\ reqLog[1].resp.page = <<GoodA>> /\ reqLog[1].resp.next
    /\ reqLog[2].resp.status = "429" /\ reqLog[2].url = 1
    /\ reqLog[3].url = 1 /\ reqLog[3].resp.page = <<BadX, GoodB>>
    /\ IdsOf(emails) = <<"a", "b">>
    /\ sleeps = <<DefaultRetryAfter>>

----------------------------------------------------------------------------
(* C36 *)

\* The answers the main call of the running operation has received so far: one
\* of each kind the back end can give besides success.
MainStatuses == {MainLog[i].resp.status : i \in 1..Len(MainLog)}

\* C36: send reply, mark read and batch mark read issue at most max_retries
\* requests of their main call in one invocation, and list events at most
\* max_retries for each requested day, whatever the back end answers (429,
\* error statuses, transport failures); each of these operations reaches its
\* end.
C36_BoundedRetries ==
    /\ [](/\ op \in {"send", "mark", "batch"} => Len(MainLog) <= max_retries
          /\ op = "events" =>
                \A i \in 1..Len(date_strs) :
                    Len(RequestsOfDay(i)) <= max_retries)
    /\ <>(pc = "done")

C36_Witness ==
    /\ pc = "done"
    /\ op \in {"send", "mark", "batch"}
    /\ Len(MainLog) = max_retries
    /\ {"429", "500", "exc"} \subseteq MainStatuses


----------------------------------------------------------------------------
(* C37 *)

\* The queries of day i that were answered with a success response carrying an
\* empty event list.
EmptySuccessesOfDay(i) ==
    SelectSeq(RequestsOfDay(i),
              LAMBDA e : e.resp.status = "200" /\ e.resp.page = <<>>)

\* C37: in the text list events returns, a day has the block "No events found
\* for this day." only if the back end answered that day's query with a success
\* response containing an empty event list; a day whose query never received a
\* success response is not rendered as a day without events.
C37_AsStated ==
    (op = "events" /\ outcome = "return")
        => \A i \in 1..Len(text) :
              text[i].body = <<"No events found for this day.">>
                  => EmptySuccessesOfDay(i) # <<>>

----------------------------------------------------------------------------
(* C38 *)

\* The answers to the GET of the original message.
OrigLog == SelectSeq(reqLog, LAMBDA e : e.call = "orig")

\* C38: send reply fails with the "original message could not be retrieved"
\* error only when the back end answered 404 for the original message id; a 429
\* answer, another error status or a transport failure while resolving the
\* original message is not reported as not-found.
C38_AsStated ==
    (op = "send" /\ outcome = "raise" /\ err = OriginalMissing)
        => /\ OrigLog # <<>>
           /\ OrigLog[Len(OrigLog)].resp.status = "404"

----------------------------------------------------------------------------
(* C39 *)

\* C39: for every configuration, validate_config(kind, config) of the factory
\* and validate_configuration() of the provider created from the same kind and
\* configuration give the same verdict, also when required keys are present
\* with empty values.
C39_AsStated ==
    (cfgTask = "factory" /\ verdict.called /\ valid # NotInspected)
        => verdict.ok = valid.ok

\* The two verdicts agree whenever no required key of the provider's kind is
\* present with an empty value; with such a key the factory says False and the
\* provider says True exactly when every required key is present.
C39_SameVerdictWithoutEmptyValues ==
    (cfgTask = "factory" /\ verdict.called /\ valid # NotInspected)
        => IF \E k \in KeysOfKind(provider_type) :
                  k \in DOMAIN config /\ config[k] = ""
           THEN /\ ~verdict.ok
                /\ valid.ok <=> KeysOfKind(provider_type) \subseteq DOMAIN config
           ELSE verdict.ok = valid.ok

C39_Witness ==
    /\ cfgTask = "factory" /\ verdict.called /\ valid # NotInspected
    /\ verdict.ok /\ valid.ok
    /\ \E k \in DOMAIN config : config[k] = " "

----------------------------------------------------------------------------
(* C40 *)

\* The input ids that are not skipped, in input order: the j-th of them is the
\* id the j-th sub-request is built for ("url": f"/me/messages/{message_id}").
ValidIds(ids) == SelectSeq(ids, LAMBDA m : ~(m = "" \/ m \in NonStringIds))

\* The message ids of the sub-requests that the sub-response r answers.
TargetsOf(ids, r) ==
    {ValidIds(ids)[j] : j \in {j \in 1..Len(BatchRequestIds(ids)) :
                                  BatchRequestIds(ids)[j] = r.id}}

\* C40: after a 200 batch answer, whatever the order of its sub-responses,
\* every key of the result map is a valid input id and its value is the outcome
\* of a sub-response to a sub-request built for that id; a valid id none of
\* whose sub-requests got a sub-response has no entry.
C40_BatchMapping ==
    (op = "batch" /\ pc = "done" /\ MainLog # <<>>
        /\ MainLog[Len(MainLog)].resp.status = "200")
        => LET subs == MainLog[Len(MainLog)].resp.subs
               answers(x) == {j \in 1..Len(subs) : x \in TargetsOf(message_ids, subs[j])}
           IN  /\ outcome = "return"
               /\ \A x \in DOMAIN results :
                    /\ x # "" /\ x \notin NonStringIds
                    /\ \E i \in 1..Len(message_ids) : message_ids[i] = x
                    /\ \E j \in answers(x) : results[x] = (subs[j].status = "200")
               /\ \A i \in 1..Len(message_ids) :
                    answers(message_ids[i]) = {} => message_ids[i] \notin DOMAIN results

C40_Witness ==
    /\ op = "batch" /\ pc = "done" /\ outcome = "return"
    /\ message_ids = <<"a", "int:7", "b">>
    /\ MainLog # <<>>
    /\ MainLog[Len(MainLog)].resp.subs = <<[id |-> 2, status |-> "200"]>>
    /\ results = [x \in {"b"} |-> TRUE]

============================================================================
